---- MODULE Spec2Model ----
(***************************************************************************)
(* Region-aware multi-source aggregation (utils/web_scraper.py).           *)
(*                                                                         *)
(* The model follows one call of a public entry point at a time           *)
(* (fetch_public_content, fetch_personal_dynamics, fetch_video_content,   *)
(* fetch_news_content, fetch_window_context_content).  Every coroutine is *)
(* cut at its await points: a fetcher runs from its first line to the     *)
(* request it issues, then from the response of that request to its       *)
(* return or to the request of its fallback.  Branches of one gather      *)
(* interleave freely.  What the network answers is an input drawn when    *)
(* the response arrives.                                                   *)
(*                                                                         *)
(* Strings of the source that are not ASCII are written as ASCII tags.    *)
(***************************************************************************)
EXTENDS Integers, Sequences, FiniteSets, TLC

VARIABLES
    locale,      \* ambient system locale read by is_china_region
    bilibiliApi, \* whether the bilibili_api package can be imported
    store,       \* utils.cookies_login store: platform -> what load_cookies_from_file does
    files,       \* plaintext <platform>_cookies.json candidates, in search order
    call,        \* the entry point being executed and where it stands
    branches,    \* the coroutines launched by the call, in launch order
    doneOrder,   \* indices of branches in the order in which they settled
    win,         \* window-context pipeline locals (title, queries)
    ret          \* what the entry point returned

vars == <<locale, bilibiliApi, store, files, call, branches, doneOrder, win, ret>>

(***************************************************************************)
(* Bounds of the model.                                                    *)
(***************************************************************************)
MaxLimit == 2      \* limits passed by callers range over 0..MaxLimit
MaxItems == 2      \* a source response carries at most MaxItems items

Min(a, b) == IF a <= b THEN a ELSE b

\* s[:n] for n >= 0
Take(s, n) == SubSeq(s, 1, Min(n, Len(s)))

RECURSIVE SeqsUpTo(_, _)
SeqsUpTo(S, n) ==
    IF n = 0 THEN {<<>>}
    ELSE LET shorter == SeqsUpTo(S, n - 1)
         IN  shorter \cup {Append(s, x) : s \in {t \in shorter : Len(t) = n - 1}, x \in S}

(***************************************************************************)
(* Results.  A fetcher returns a dict {'success': True, <list key>: items} *)
(* or {'success': False, 'error': text}.  Absent marks a key that the     *)
(* dict does not have; the empty string is a present, empty error.        *)
(***************************************************************************)
Absent == "<absent>"

Ok(items) == [success |-> TRUE, items |-> items, error |-> Absent]
Fail(e)   == [success |-> FALSE, items |-> <<>>, error |-> e]

\* str(e) of the exceptions a request, a status check or a decode can raise.
\* Timeouts of the HTTP client and asyncio.TimeoutError have an empty str().
ExcMsgs == {"", "connect error"}
StatusError == "status error"            \* response.raise_for_status()
JsonError == "json decode error"         \* response.json() on a body that is no JSON
AttrError == "object has no attribute get"  \* .get on a value that is no dict

(***************************************************************************)
(* What a request can come back with.                                      *)
(*   exc      the client raised (timeout, connection failure)              *)
(*   status   a non-2xx status with an error page as body                  *)
(*   redirect the final URL is a login / passport page (status 200, HTML)  *)
(*   notdict  status 200, JSON of an unexpected type                       *)
(*   notok    status 200, a JSON object that reports failure / no data     *)
(*   data     status 200, a well-formed payload with a list of items       *)
(* Source items: good (complete), noid (its identifier or text is missing) *)
(* ad (the kind the fetcher filters: advert, over_18, non-post card).      *)
(***************************************************************************)
ItemKinds == {"good", "noid", "ad"}
Payloads == SeqsUpTo(ItemKinds, MaxItems)

Responses ==
    {[k |-> "exc", msg |-> m, items |-> <<>>] : m \in ExcMsgs}
    \cup {[k |-> kk, msg |-> "", items |-> <<>>] : kk \in {"status", "redirect", "notdict", "notok"}}
    \cup {[k |-> "data", msg |-> "", items |-> p] : p \in Payloads}

\* for x in items: if x is skipped: continue; out.append(x); if len(out) >= limit: break
RECURSIVE AppendThenCheck(_, _, _, _)
AppendThenCheck(items, limit, keep, out) ==
    IF items = <<>> THEN out
    ELSE IF Head(items) \notin keep THEN AppendThenCheck(Tail(items), limit, keep, out)
    ELSE LET out2 == Append(out, Head(items))
         IN  IF Len(out2) >= limit THEN out2
             ELSE AppendThenCheck(Tail(items), limit, keep, out2)

\* for x in items: if len(out) >= limit: break; if x is kept: out.append(x)
RECURSIVE CheckThenAppend(_, _, _, _)
CheckThenAppend(items, limit, keep, out) ==
    IF items = <<>> THEN out
    ELSE IF Len(out) >= limit THEN out
    ELSE IF Head(items) \in keep
         THEN CheckThenAppend(Tail(items), limit, keep, Append(out, Head(items)))
         ELSE CheckThenAppend(Tail(items), limit, keep, out)

Keep(items, keep) == SelectSeq(items, LAMBDA x : x \in keep)

(***************************************************************************)
(* A step of a fetcher: where it goes next and, when it returns, with what. *)
(***************************************************************************)
Return(r)  == [next |-> "done", val |-> r]
GoPrimary  == [next |-> "primary", val |-> Fail(Absent)]
GoFallback == [next |-> "fallback", val |-> Fail(Absent)]

(***************************************************************************)
(* Credentials.                                                            *)
(***************************************************************************)
Platforms == {"bilibili", "weibo", "reddit", "twitter"}

NoCookies == {}

\* one candidate file: missing, unreadable / not JSON, or a cookie mapping
FileMissing == [state |-> "missing", cookies |-> NoCookies]
FileCorrupt == [state |-> "corrupt", cookies |-> NoCookies]
FileWith(c) == [state |-> "ok", cookies |-> c]

\* variant: an unreadable candidate ends the search
RECURSIVE FirstCookieFileStopsAtCorrupt(_)
FirstCookieFileStopsAtCorrupt(cands) ==
    IF cands = <<>> THEN NoCookies
    ELSE LET c == Head(cands)
         IN  IF c.state = "missing" THEN FirstCookieFileStopsAtCorrupt(Tail(cands))
             ELSE IF c.state = "corrupt" THEN NoCookies
             ELSE IF c.cookies # NoCookies THEN c.cookies
             ELSE FirstCookieFileStopsAtCorrupt(Tail(cands))

RECURSIVE FirstCookieFile(_)
FirstCookieFile(cands) ==
    IF cands = <<>> THEN NoCookies
    ELSE LET c == Head(cands)
         IN  IF c.state = "missing" THEN FirstCookieFile(Tail(cands))
             ELSE IF c.state = "corrupt" THEN FirstCookieFile(Tail(cands))
             ELSE IF c.cookies # NoCookies THEN c.cookies
             ELSE FirstCookieFile(Tail(cands))

_get_platform_cookies(platform_name) ==
    IF ~store[platform_name].raises /\ store[platform_name].cookies # NoCookies
    THEN store[platform_name].cookies
    ELSE FirstCookieFile(files[platform_name])

\* None (FALSE) or a Credential object (TRUE)
_get_bilibili_credential ==
    IF ~bilibiliApi THEN FALSE
    ELSE _get_platform_cookies("bilibili") # NoCookies

(***************************************************************************)
(* Trending fetchers (public endpoints).                                   *)
(***************************************************************************)
ErrNoBilibiliApi == "bilibili_api not installed"
ErrWeiboFormat == "weibo API returned an unexpected format"
ErrWeiboApi == "weibo API returned an error"
ErrRedditEmpty == "Reddit returned no data"
ErrTwitterTrending == "cannot fetch Twitter trending"

\* from the first line to homepage.get_videos
fetch_bilibili_trending_begin(limit) ==
    IF ~bilibiliApi THEN Return(Fail(ErrNoBilibiliApi)) ELSE GoPrimary

\* from the answer of homepage.get_videos to the return
fetch_bilibili_trending(limit, resp) ==
    CASE resp.k = "exc"      -> Return(Fail(resp.msg))
      [] resp.k = "status"   -> Return(Fail(StatusError))
      [] resp.k = "redirect" -> Return(Fail(JsonError))
      [] resp.k = "notdict"  -> Return(Fail(AttrError))
      [] resp.k = "notok"    -> Return(Ok(<<>>))
      [] resp.k = "data"     ->
            Return(Ok(AppendThenCheck(resp.items, limit, {"good", "ad"}, <<>>)))

fetch_weibo_trending_begin(limit) == GoPrimary

\* variant: a passport redirect is reported as a failure instead of being handed
\* to the fallback
fetch_weibo_trending_redirect_fails(limit, resp) ==
    CASE resp.k = "redirect" -> Return(Fail("passport redirect"))
      [] resp.k \in {"exc", "status", "notdict", "notok"} -> GoFallback
      [] resp.k = "data"     ->
            IF resp.items = <<>> THEN GoFallback
            ELSE LET trending_list == CheckThenAppend(resp.items, limit, {"good", "ad"}, <<>>)
                 IN  IF trending_list # <<>> THEN Return(Ok(trending_list)) ELSE GoFallback

\* s.weibo.com: a passport redirect, a page without rows, an empty list and
\* any exception all lead to the fallback
fetch_weibo_trending(limit, resp) ==
    CASE resp.k = "exc"      -> GoFallback
      [] resp.k = "redirect" -> GoFallback
      [] resp.k \in {"status", "notdict", "notok"} -> GoFallback
      [] resp.k = "data"     ->
            IF resp.items = <<>> THEN GoFallback
            ELSE LET trending_list == CheckThenAppend(resp.items, limit, {"good", "ad"}, <<>>)
                 IN  IF trending_list # <<>> THEN Return(Ok(trending_list)) ELSE GoFallback

\* variant: a failed fallback goes back to the primary request
_fetch_weibo_trending_fallback_retries(limit, resp) ==
    IF resp.k = "data" THEN Return(Ok(Keep(Take(resp.items, limit), {"good", "noid"})))
    ELSE GoPrimary

\* weibo.com/ajax/side/hotSearch
_fetch_weibo_trending_fallback(limit, resp) ==
    CASE resp.k = "exc"      -> Return(Fail(resp.msg))
      [] resp.k = "status"   -> Return(Fail(StatusError))
      [] resp.k = "redirect" -> Return(Fail(JsonError))
      [] resp.k = "notdict"  -> Return(Fail(ErrWeiboFormat))
      [] resp.k = "notok"    -> Return(Fail(ErrWeiboApi))
      [] resp.k = "data"     -> Return(Ok(Keep(Take(resp.items, limit), {"good", "noid"})))

fetch_reddit_popular_begin(limit) == GoPrimary

fetch_reddit_popular(limit, resp) ==
    CASE resp.k = "exc"      -> Return(Fail(resp.msg))
      [] resp.k \in {"status", "redirect"} -> Return(Fail(JsonError))
      [] resp.k = "notdict"  -> Return(Fail(AttrError))
      [] resp.k = "notok"    -> Return(Fail(ErrRedditEmpty))
      [] resp.k = "data"     ->
            LET posts == Keep(Take(resp.items, limit), {"good", "noid"})
            IN  IF posts # <<>> THEN Return(Ok(posts)) ELSE Return(Fail(ErrRedditEmpty))

fetch_twitter_trending_begin(limit) == GoPrimary

fetch_twitter_trending(limit, resp) ==
    CASE resp.k = "data" ->
            LET trending_list == Keep(Take(resp.items, limit), {"good", "ad"})
            IN  IF trending_list # <<>> THEN Return(Ok(trending_list))
                ELSE Return(Fail(ErrTwitterTrending))
      [] OTHER -> Return(Fail(ErrTwitterTrending))

(***************************************************************************)
(* Personal fetchers (credential gated).                                   *)
(***************************************************************************)
ErrNoBilibiliCredential == "no Bilibili credential provided"
ErrBilibiliApi == "API request failed"
ErrNoWeiboCookies == "config/weibo_cookies.json not found"
ErrNoSub == "core credential SUB missing"
ErrWeiboStatus == "API request failed, status code"
ErrWeiboExpired == "weibo credential expired"
ErrWeiboEmpty == "no weibo content parsed"
ErrNoRedditCookies == "config/reddit_cookies.json not configured"
ErrNoTwitterCookies == "config/twitter_cookies.json not configured"
ErrTwitterFormat == "API returned data of an unexpected format"
ErrTwitterEmpty == "no tweet content parsed"
ErrTwitterExpired == "Twitter cookie expired, web page refused"
ErrTwitterRegex == "web regex scraping failed"

fetch_bilibili_personal_dynamic_begin(limit) ==
    IF ~_get_bilibili_credential THEN Return(Fail(ErrNoBilibiliCredential)) ELSE GoPrimary

fetch_bilibili_personal_dynamic(limit, resp) ==
    CASE resp.k = "exc"      -> Return(Fail(resp.msg))
      [] resp.k = "status"   -> Return(Fail(StatusError))
      [] resp.k = "redirect" -> Return(Fail(JsonError))
      [] resp.k \in {"notdict", "notok"} -> Return(Fail(ErrBilibiliApi))
      [] resp.k = "data"     ->
            Return(Ok(AppendThenCheck(resp.items, limit, {"good", "noid"}, <<>>)))

fetch_weibo_personal_dynamic_begin(limit) ==
    LET weibo_cookies == _get_platform_cookies("weibo")
    IN  IF weibo_cookies = NoCookies THEN Return(Fail(ErrNoWeiboCookies))
        ELSE IF "SUB" \notin weibo_cookies /\ "sub" \notin weibo_cookies
             THEN Return(Fail(ErrNoSub))
        ELSE GoPrimary

fetch_weibo_personal_dynamic(limit, resp) ==
    CASE resp.k = "exc"      -> Return(Fail(resp.msg))
      [] resp.k = "status"   -> Return(Fail(ErrWeiboStatus))
      [] resp.k = "redirect" -> Return(Fail(JsonError))
      [] resp.k = "notdict"  -> Return(Fail(AttrError))
      [] resp.k = "notok"    -> Return(Fail(ErrWeiboExpired))
      [] resp.k = "data"     ->
            LET weibo_list == AppendThenCheck(resp.items, limit, {"good", "noid"}, <<>>)
            IN  IF weibo_list # <<>> THEN Return(Ok(weibo_list))
                ELSE Return(Fail(ErrWeiboEmpty))

\* variant: the request is sent whatever the cookies are
fetch_reddit_personal_dynamic_begin_ungated(limit) == GoPrimary

fetch_reddit_personal_dynamic_begin(limit) ==
    IF _get_platform_cookies("reddit") = NoCookies
    THEN Return(Fail(ErrNoRedditCookies)) ELSE GoPrimary

fetch_reddit_personal_dynamic(limit, resp) ==
    CASE resp.k = "exc"      -> Return(Fail(resp.msg))
      [] resp.k \in {"status", "redirect"} -> Return(Fail(JsonError))
      [] resp.k = "notdict"  -> Return(Fail(AttrError))
      [] resp.k = "notok"    -> Return(Ok(<<>>))
      [] resp.k = "data"     -> Return(Ok(Keep(Take(resp.items, limit), {"good", "noid"})))

fetch_twitter_personal_dynamic_begin(limit) ==
    IF _get_platform_cookies("twitter") = NoCookies
    THEN Return(Fail(ErrNoTwitterCookies)) ELSE GoPrimary

\* api.twitter.com home_timeline: only a status other than 200 leads to the fallback
fetch_twitter_personal_dynamic(limit, resp) ==
    CASE resp.k = "exc"      -> Return(Fail(resp.msg))
      [] resp.k = "status"   -> GoFallback
      [] resp.k = "redirect" -> Return(Fail(JsonError))
      [] resp.k \in {"notdict", "notok"} -> Return(Fail(ErrTwitterFormat))
      [] resp.k = "data"     ->
            LET tweets == Take(resp.items, limit)
            IN  IF tweets # <<>> THEN Return(Ok(tweets)) ELSE Return(Fail(ErrTwitterEmpty))

\* twitter.com/home scraped with regular expressions
_fetch_twitter_personal_web_scraping(limit, resp) ==
    CASE resp.k = "exc"      -> Return(Fail(resp.msg))
      [] resp.k = "redirect" -> Return(Fail(ErrTwitterExpired))
      [] resp.k \in {"status", "notdict", "notok"} -> Return(Fail(ErrTwitterRegex))
      [] resp.k = "data"     ->
            LET tweets == Take(Keep(resp.items, {"good", "ad"}), limit)
            IN  IF tweets # <<>> THEN Return(Ok(tweets)) ELSE Return(Fail(ErrTwitterRegex))

(***************************************************************************)
(* Text.  A string is a sequence of pieces; each piece stands for a fixed  *)
(* run of characters, so that the regular expressions of the source act on *)
(* whole pieces.                                                           *)
(*   "abc"        an ordinary word of three characters                     *)
(*   "a"          a single ordinary character                              *)
(*   "kw1".."kw3" keywords written by the query assistant                  *)
(*   " - Chrome"  a browser / application suffix                           *)
(*   " - 1"       a dash followed by a number                              *)
(*   " [x]"       a bracketed annotation                                   *)
(*   ".py"        a file extension                                         *)
(*   "1. "        a list number in front of an assistant line              *)
(***************************************************************************)
CharLen1(piece) ==
    CASE piece = "abc" -> 3
      [] piece = "a" -> 1
      [] piece \in {"kw1", "kw2", "kw3"} -> 3
      [] piece = " - Chrome" -> 9
      [] piece = " - 1" -> 4
      [] piece = " [x]" -> 4
      [] piece = ".py" -> 3
      [] piece = "1. " -> 3

RECURSIVE CharLen(_)
CharLen(text) == IF text = <<>> THEN 0 ELSE CharLen1(Head(text)) + CharLen(Tail(text))

\* index of the first piece of text that is in S, or 0
RECURSIVE FirstIn(_, _, _)
FirstIn(text, S, i) ==
    IF i > Len(text) THEN 0
    ELSE IF text[i] \in S THEN i ELSE FirstIn(text, S, i + 1)

Last(text) == text[Len(text)]
DropLast(text) == SubSeq(text, 1, Len(text) - 1)

\* re.sub(r'\s*[-]\s*(<application>).*$', '', s): from the first suffix to the end
StripAppSuffix(text) ==
    LET i == FirstIn(text, {" - Chrome"}, 1)
    IN  IF i = 0 THEN text ELSE SubSeq(text, 1, i - 1)

\* re.sub(r'\s*[-]\s*\d+\s*$', '', s)
StripNumberSuffix(text) ==
    IF text # <<>> /\ Last(text) = " - 1" THEN DropLast(text) ELSE text

\* re.sub(r'\s*\[.*?\]\s*$', '', s): from the first bracket, when the string ends with one
StripBracket(text) ==
    IF text # <<>> /\ Last(text) = " [x]"
    THEN SubSeq(text, 1, FirstIn(text, {" [x]"}, 1) - 1)
    ELSE text

\* re.sub(r'\.py\s*$', '', s) and the other extensions
StripExtension(text) ==
    IF text # <<>> /\ Last(text) = ".py" THEN DropLast(text) ELSE text

\* ' '.join(s.split()) and str.strip(): leading blanks of the first piece go
DashPieces == {" - Chrome", " - 1"}

\* re.split(r'\s*[-|]\s*', title)[0]
FirstDashPart(title) ==
    LET i == FirstIn(title, DashPieces, 1)
    IN  IF i = 0 THEN title ELSE SubSeq(title, 1, i - 1)

clean_window_title(title) ==
    IF title = <<>> THEN <<>>
    ELSE LET cleaned == StripExtension(StripBracket(StripNumberSuffix(StripAppSuffix(title))))
         IN  IF CharLen(cleaned) < 3 /\ CharLen(FirstDashPart(title)) >= 3
             THEN FirstDashPart(title)
             ELSE cleaned

\* title[:30] + '...' when the title is longer than 30 characters
TitleCut == 30
Sanitize(title) ==
    IF CharLen(title) > TitleCut THEN <<"<first 30 characters>", "...">> ELSE title

(***************************************************************************)
(* The query assistant.  Its answer is an exception or free text, split    *)
(* into lines.                                                             *)
(***************************************************************************)
\* strip(), re.sub(r'^[\d\.\-\*\)\]]+\s*', '', line), strip('.,;:')
CleanLine(line) ==
    IF line # <<>> /\ Head(line) = "1. " THEN Tail(line) ELSE line

\* the first three lines of at least two characters
RECURSIVE UsableLines(_, _)
UsableLines(lines, queries) ==
    IF lines = <<>> THEN queries
    ELSE LET line == CleanLine(Head(lines))
         IN  IF line # <<>> /\ CharLen(line) >= 2
             THEN LET q2 == Append(queries, line)
                  IN  IF Len(q2) >= 3 THEN q2 ELSE UsableLines(Tail(lines), q2)
             ELSE UsableLines(Tail(lines), queries)

\* while len(queries) < 3 and clean_title: queries.append(clean_title)
RECURSIVE PadQueries(_, _)
PadQueries(queries, clean_title) ==
    IF Len(queries) < 3 /\ clean_title # <<>>
    THEN PadQueries(Append(queries, clean_title), clean_title)
    ELSE queries

\* variant: the except branch answers with the title once
generate_diverse_queries_single(window_title, reply) ==
    IF reply.raises
    THEN <<clean_window_title(window_title)>>
    ELSE LET queries == UsableLines(reply.lines, <<>>)
         IN  IF Len(queries) < 3
             THEN Take(PadQueries(queries, clean_window_title(window_title)), 3)
             ELSE Take(queries, 3)

\* variant: with fewer than three usable lines the title is used for all three
generate_diverse_queries_title_only(window_title, reply) ==
    LET clean_title == clean_window_title(window_title)
    IN  IF reply.raises THEN <<clean_title, clean_title, clean_title>>
        ELSE LET queries == UsableLines(reply.lines, <<>>)
             IN  IF Len(queries) < 3
                 THEN <<clean_title, clean_title, clean_title>>
                 ELSE Take(queries, 3)

\* reply: [raises |-> BOOLEAN, lines |-> sequence of lines]
generate_diverse_queries(window_title, reply) ==
    IF reply.raises
    THEN LET clean_title == clean_window_title(window_title)
         IN  <<clean_title, clean_title, clean_title>>
    ELSE LET queries == UsableLines(reply.lines, <<>>)
         IN  IF Len(queries) < 3
             THEN Take(PadQueries(queries, clean_window_title(window_title)), 3)
             ELSE Take(queries, 3)

(***************************************************************************)
(* Search engines.  A result is a record of title and url; the payload of  *)
(* a response is the list of result blocks of the page, in page order.  A  *)
(* block with an empty title is one the parser drops.                      *)
(***************************************************************************)
ErrQueryTooShort == "search keyword too short"
ErrNoParse == "no search result could be parsed"

SearchItem(t, u) == [title |-> t, url |-> u]

Usable(blocks) == SelectSeq(blocks, LAMBDA b : b.title # "")

\* for div in result_divs[:limit * 2]: keep those with a usable title, stop at limit
parse_google_results(blocks, limit) == Take(Usable(Take(blocks, limit * 2)), limit)

\* the same over the c-container blocks; when nothing is found, the first
\* limit <h3> headings of the page are tried
parse_baidu_results(blocks, limit) ==
    LET results == Take(Usable(Take(blocks, limit * 2)), limit)
    IN  IF results = <<>> THEN Take(Usable(Take(blocks, limit)), limit) ELSE results

search_google_begin(query, limit) ==
    IF query = <<>> \/ CharLen(query) < 2 THEN Return(Fail(ErrQueryTooShort)) ELSE GoPrimary

search_google(query, limit, resp) ==
    CASE resp.k = "exc"    -> Return(Fail(resp.msg))
      [] resp.k = "status" -> Return(Fail(StatusError))
      [] resp.k \in {"redirect", "notdict", "notok"} -> Return(Fail(ErrNoParse))
      [] resp.k = "data"   ->
            LET results == parse_google_results(resp.items, limit)
            IN  IF results # <<>> THEN Return(Ok(results)) ELSE Return(Fail(ErrNoParse))

search_baidu_begin(query, limit) ==
    IF query = <<>> \/ CharLen(query) < 2 THEN Return(Fail(ErrQueryTooShort)) ELSE GoPrimary

search_baidu(query, limit, resp) ==
    CASE resp.k = "exc"    -> Return(Fail(resp.msg))
      [] resp.k = "status" -> Return(Fail(StatusError))
      [] resp.k \in {"redirect", "notdict", "notok"} -> Return(Fail(ErrNoParse))
      [] resp.k = "data"   ->
            LET results == parse_baidu_results(resp.items, limit)
            IN  IF results # <<>> THEN Return(Ok(results)) ELSE Return(Fail(ErrNoParse))

(***************************************************************************)
(* Region detection.                                                       *)
(***************************************************************************)
\* A locale name is a sequence of pieces: language, separator, territory and
\* an optional encoding, or the words of a Windows locale name.
LowerPiece(piece) ==
    CASE piece \in {"zh", "ZH"} -> "zh"
      [] piece = "en" -> "en"
      [] piece \in {"CN", "cn"} -> "cn"
      [] piece = "HK" -> "hk"
      [] piece = "TW" -> "tw"
      [] piece = "MO" -> "mo"
      [] piece = "US" -> "us"
      [] piece \in {"_", "-"} -> "_"
      [] piece = ".UTF-8" -> ".utf-8"
      [] piece = ".936" -> ".936"
      [] piece = "C" -> "c"
      [] piece = "Chinese" -> "chinese"
      [] piece = "Simplified" -> "simplified"
      [] piece = " (Simplified)" -> " (simplified)"
      [] piece = " (Traditional)" -> " (traditional)"
      [] piece = "China" -> "china"
      [] piece = "Hong Kong SAR" -> "hong kong sar"
      [] piece = "Macao SAR" -> "macao sar"
      [] piece = "Taiwan" -> "taiwan"

EncodingPieces == {".utf-8", ".936"}

mainland_china_locales ==
    {<<"zh", "_", "cn">>, <<"chinese", "_", "china">>,
     <<"chinese", "_", "simplified", "_", "china">>}

\* loc.lower(), loc.replace('-', '_'), loc.split('.')[0]
normalize_locale(loc) ==
    IF loc = <<>> THEN <<>>
    ELSE LET lowered == [i \in 1..Len(loc) |-> LowerPiece(loc[i])]
             dot == FirstIn(lowered, EncodingPieces, 1)
         IN  IF dot = 0 THEN lowered ELSE SubSeq(lowered, 1, dot - 1)

check_locale(loc) ==
    LET normalized == normalize_locale(loc)
    IN  IF normalized = <<>> THEN FALSE
        ELSE IF normalized \in mainland_china_locales THEN TRUE
        ELSE IF Len(normalized) >= 3 /\ SubSeq(normalized, 1, 3) = <<"zh", "_", "cn">> THEN TRUE
        ELSE IF /\ \E i \in 1..Len(normalized) : normalized[i] = "chinese"
                /\ \E i \in 1..Len(normalized) : normalized[i] = "china" THEN TRUE
        ELSE FALSE

\* what locale.getlocale() / locale.getdefaultlocale() does: a name, None,
\* ValueError, or another exception
LocaleValue(s) == [k |-> "value", s |-> s]
LocaleNone == [k |-> "none", s |-> <<>>]
LocaleValueError == [k |-> "ValueError", s |-> <<>>]
LocaleError == [k |-> "error", s |-> <<>>]

\* variant: only ValueError is caught around a lookup
TryLocaleValueErrorOnly(lookup) ==
    CASE lookup.k = "ValueError" -> "pass"
      [] lookup.k = "error" -> "raise"
      [] lookup.k = "none" -> "pass"
      [] lookup.k = "value" ->
            IF lookup.s # <<>> /\ check_locale(lookup.s) THEN "china" ELSE "pass"

\* one try block of is_china_region: return True, fall through, or raise
TryLocale(lookup) ==
    CASE lookup.k = "ValueError" -> "pass"
      [] lookup.k = "error" -> "pass"
      [] lookup.k = "none" -> "pass"
      [] lookup.k = "value" ->
            IF lookup.s # <<>> /\ check_locale(lookup.s) THEN "china" ELSE "pass"

\* loc: [system |-> lookup of getlocale, default |-> lookup of getdefaultlocale]
RegionDetection(loc) ==
    LET first == TryLocale(loc.system)
        second == TryLocale(loc.default)
    IN  IF first = "china" THEN [raises |-> FALSE, value |-> TRUE]
        ELSE IF first = "raise" THEN [raises |-> TRUE, value |-> FALSE]
        ELSE IF second = "china" THEN [raises |-> FALSE, value |-> TRUE]
        ELSE IF second = "raise" THEN [raises |-> TRUE, value |-> FALSE]
        ELSE [raises |-> FALSE, value |-> FALSE]

\* the two system configurations the entry points are run under
Locales ==
    {[system |-> LocaleValue(<<"zh", "_", "CN", ".UTF-8">>), default |-> LocaleNone],
     [system |-> LocaleValue(<<"en", "_", "US">>), default |-> LocaleNone]}

\* variant: every system is taken for a mainland one
is_china_region_always == TRUE

is_china_region == RegionDetection(locale).value

RegionName(china_region) == IF china_region THEN "china" ELSE "non-china"

(***************************************************************************)
(* Coroutines launched by an entry point.                                  *)
(***************************************************************************)
Fetchers == {"fetch_bilibili_trending", "fetch_weibo_trending",
             "fetch_reddit_popular", "fetch_twitter_trending",
             "fetch_bilibili_personal_dynamic", "fetch_weibo_personal_dynamic",
             "fetch_reddit_personal_dynamic", "fetch_twitter_personal_dynamic"}
SearchFuncs == {"search_baidu", "search_google"}

Pending == [kind |-> "pending", val |-> Fail(Absent), msg |-> Absent]
Returned(r) == [kind |-> "ret", val |-> r, msg |-> Absent]
Raised(m) == [kind |-> "exc", val |-> Fail(Absent), msg |-> m]

NewBranch(f, query, limit) ==
    [f |-> f, query |-> query, limit |-> limit, pc |-> "new", out |-> Pending,
     prim |-> 0, fb |-> 0, primKind |-> Absent, fbres |-> Fail(Absent)]

Begin(b) ==
    CASE b.f = "fetch_bilibili_trending" -> fetch_bilibili_trending_begin(b.limit)
      [] b.f = "fetch_weibo_trending" -> fetch_weibo_trending_begin(b.limit)
      [] b.f = "fetch_reddit_popular" -> fetch_reddit_popular_begin(b.limit)
      [] b.f = "fetch_twitter_trending" -> fetch_twitter_trending_begin(b.limit)
      [] b.f = "fetch_bilibili_personal_dynamic" -> fetch_bilibili_personal_dynamic_begin(b.limit)
      [] b.f = "fetch_weibo_personal_dynamic" -> fetch_weibo_personal_dynamic_begin(b.limit)
      [] b.f = "fetch_reddit_personal_dynamic" -> fetch_reddit_personal_dynamic_begin(b.limit)
      [] b.f = "fetch_twitter_personal_dynamic" -> fetch_twitter_personal_dynamic_begin(b.limit)
      [] b.f = "search_baidu" -> search_baidu_begin(b.query, b.limit)
      [] b.f = "search_google" -> search_google_begin(b.query, b.limit)

OnPrimary(b, resp) ==
    CASE b.f = "fetch_bilibili_trending" -> fetch_bilibili_trending(b.limit, resp)
      [] b.f = "fetch_weibo_trending" -> fetch_weibo_trending(b.limit, resp)
      [] b.f = "fetch_reddit_popular" -> fetch_reddit_popular(b.limit, resp)
      [] b.f = "fetch_twitter_trending" -> fetch_twitter_trending(b.limit, resp)
      [] b.f = "fetch_bilibili_personal_dynamic" -> fetch_bilibili_personal_dynamic(b.limit, resp)
      [] b.f = "fetch_weibo_personal_dynamic" -> fetch_weibo_personal_dynamic(b.limit, resp)
      [] b.f = "fetch_reddit_personal_dynamic" -> fetch_reddit_personal_dynamic(b.limit, resp)
      [] b.f = "fetch_twitter_personal_dynamic" -> fetch_twitter_personal_dynamic(b.limit, resp)
      [] b.f = "search_baidu" -> search_baidu(b.query, b.limit, resp)
      [] b.f = "search_google" -> search_google(b.query, b.limit, resp)

OnFallback(b, resp) ==
    CASE b.f = "fetch_weibo_trending" -> _fetch_weibo_trending_fallback(b.limit, resp)
      [] b.f = "fetch_twitter_personal_dynamic" -> _fetch_twitter_personal_web_scraping(b.limit, resp)

(***************************************************************************)
(* Envelopes.  One record shape for every entry point; a key that the      *)
(* returned dict does not have is Absent.  per lists the per-platform (or  *)
(* per-content) results in the order of the dict.                          *)
(***************************************************************************)
AbsentText == <<Absent>>

Envelope(success, error, region, per) ==
    [success |-> success, error |-> error, region |-> region, per |-> per,
     window_title |-> AbsentText, search_queries |-> <<>>, search_results |-> <<>>]

WindowEnvelope(success, error, region, title, queries, results) ==
    [success |-> success, error |-> error, region |-> region, per |-> <<>>,
     window_title |-> title, search_queries |-> queries, search_results |-> results]

NoEnvelope == Envelope(FALSE, Absent, Absent, <<>>)

ErrNoTrending == "cannot fetch any trending content"
ErrNoTitle == "cannot get the active window title"
ErrNoKeywords == "cannot extract valid search keywords"
ErrNoResults == "no query returned search results"

\* variant: the caller resumes as soon as one awaitable has settled
GatherAnySettled(bs) == \E i \in 1..Len(bs) : bs[i].pc = "done"

\* asyncio.gather(..., return_exceptions=True) resumes its caller when every
\* awaitable has returned or raised
GatherSettled(bs) == \A i \in 1..Len(bs) : bs[i].pc = "done"

\* variant: the results come in the order in which the awaitables settled
GatherResultsAsCompleted(bs, order) == [i \in 1..Len(bs) |-> bs[order[i]].out]

\* the list gather returns: one entry per awaitable, in the order the awaitables
\* were passed, whatever the order in which they settled
GatherResults(bs, order) == [i \in 1..Len(bs) |-> bs[i].out]

\* if isinstance(x, Exception): x = {'success': False, 'error': str(x)}
AsResult(o) == IF o.kind = "exc" THEN Fail(o.msg) ELSE o.val

PublicKeys(china_region) ==
    IF china_region THEN <<"bilibili", "weibo">> ELSE <<"reddit", "twitter">>
PersonalKeys(china_region) ==
    IF china_region THEN <<"bilibili_dynamic", "weibo_dynamic">>
    ELSE <<"reddit_dynamic", "twitter_dynamic">>

PerOf(keys, r1, r2) == <<[key |-> keys[1], res |-> r1], [key |-> keys[2], res |-> r2]>>

\* variant: the envelope of fetch_personal_dynamics, which never reports failure
fetch_public_content_always_succeeds(china_region, o1, o2) ==
    Envelope(TRUE, Absent, RegionName(china_region),
             PerOf(PublicKeys(china_region), AsResult(o1), AsResult(o2)))

\* the part of fetch_public_content after the gather
fetch_public_content(china_region, o1, o2) ==
    LET r1 == AsResult(o1)
        r2 == AsResult(o2)
        per == PerOf(PublicKeys(china_region), r1, r2)
    IN  IF ~r1.success /\ ~r2.success
        THEN Envelope(FALSE, ErrNoTrending, RegionName(china_region), per)
        ELSE Envelope(TRUE, Absent, RegionName(china_region), per)

\* the part of fetch_personal_dynamics after the gather
fetch_personal_dynamics(china_region, o1, o2) ==
    Envelope(TRUE, Absent, RegionName(china_region),
             PerOf(PersonalKeys(china_region), AsResult(o1), AsResult(o2)))

\* the part of _fetch_content_by_region after the await of the single fetcher
_fetch_content_by_region(china_region, content_key, o) ==
    IF o.kind = "exc" THEN Envelope(FALSE, o.msg, Absent, <<>>)
    ELSE LET result == o.val
         IN  Envelope(result.success,
                      IF ~result.success /\ result.error \notin {Absent, ""}
                      THEN result.error ELSE Absent,
                      RegionName(china_region),
                      <<[key |-> content_key, res |-> result]>>)

\* key = result.get('url') or result.get('title')
DedupKey(item) == IF item.url # "" THEN item.url ELSE item.title

RECURSIVE Dedup(_, _, _)
Dedup(all_results, seen_keys, unique_results) ==
    IF all_results = <<>> THEN unique_results
    ELSE LET key == DedupKey(Head(all_results))
         IN  IF key # "" /\ key \notin seen_keys
             THEN Dedup(Tail(all_results), seen_keys \cup {key},
                        Append(unique_results, Head(all_results)))
             ELSE Dedup(Tail(all_results), seen_keys, unique_results)

SearchOk(o) == o.kind = "ret" /\ o.val.success /\ o.val.items # <<>>

\* for query, search_result in zip(valid_queries, gather_results): ... extend / append
RECURSIVE AllResults(_, _)
AllResults(gather_results, i) ==
    IF i > Len(gather_results) THEN <<>>
    ELSE (IF SearchOk(gather_results[i]) THEN gather_results[i].val.items ELSE <<>>)
         \o AllResults(gather_results, i + 1)

RECURSIVE SuccessfulQueries(_, _, _)
SuccessfulQueries(valid_queries, gather_results, i) ==
    IF i > Len(gather_results) THEN <<>>
    ELSE (IF SearchOk(gather_results[i]) THEN <<valid_queries[i]>> ELSE <<>>)
         \o SuccessfulQueries(valid_queries, gather_results, i + 1)

\* variant: the merged list is returned without the cut at limit * 2
fetch_window_context_content_uncapped(china_region, w, gather_results, limit) ==
    LET unique_results == Dedup(AllResults(gather_results, 1), {}, <<>>)
    IN  IF unique_results = <<>>
        THEN WindowEnvelope(FALSE, ErrNoResults, Absent, w.sanitized, w.queries, <<>>)
        ELSE WindowEnvelope(TRUE, Absent, RegionName(china_region), w.sanitized,
                            SuccessfulQueries(w.valid, gather_results, 1), unique_results)

\* the part of fetch_window_context_content after the gather
fetch_window_context_content(china_region, w, gather_results, limit) ==
    LET unique_results == Take(Dedup(AllResults(gather_results, 1), {}, <<>>), limit * 2)
    IN  IF unique_results = <<>>
        THEN WindowEnvelope(FALSE, ErrNoResults, Absent, w.sanitized, w.queries, <<>>)
        ELSE WindowEnvelope(TRUE, Absent, RegionName(china_region), w.sanitized,
                            SuccessfulQueries(w.valid, gather_results, 1), unique_results)

(***************************************************************************)
(* Inputs of a call: the environment it runs in.                           *)
(***************************************************************************)
StoreOk(c) == [raises |-> FALSE, cookies |-> c]
StoreRaises == [raises |-> TRUE, cookies |-> NoCookies]
NoFiles == <<FileMissing, FileMissing, FileMissing>>
\* no file in the home directory, a broken one in config/, a readable one in ./
ThirdFile(c) == <<FileMissing, FileCorrupt, FileWith(c)>>

CoreCookies ==
    [p \in Platforms |->
        CASE p = "bilibili" -> {"SESSDATA"}
          [] p = "weibo" -> {"SUB"}
          [] p = "reddit" -> {"reddit_session"}
          [] p = "twitter" -> {"auth_token", "ct0"}]

OtherCookies ==
    [p \in Platforms |->
        CASE p = "bilibili" -> {"buvid3"}
          [] p = "weibo" -> {"SUBP"}
          [] p = "reddit" -> {"token_v2"}
          [] p = "twitter" -> {"auth_token"}]

EnvFresh ==
    [api |-> TRUE, store |-> [p \in Platforms |-> StoreOk(NoCookies)],
     files |-> [p \in Platforms |-> NoFiles]]
EnvAllCore ==
    [api |-> TRUE, store |-> [p \in Platforms |-> StoreOk(CoreCookies[p])],
     files |-> [p \in Platforms |-> NoFiles]]
EnvNoApi ==
    [api |-> FALSE, store |-> [p \in Platforms |-> StoreOk(CoreCookies[p])],
     files |-> [p \in Platforms |-> NoFiles]]
EnvFilesOnly ==
    [api |-> TRUE, store |-> [p \in Platforms |-> StoreRaises],
     files |-> [p \in Platforms |-> ThirdFile(OtherCookies[p])]]
EnvFirstOnly ==
    [api |-> TRUE,
     store |-> [p \in Platforms |->
                  IF p \in {"bilibili", "reddit"} THEN StoreOk(CoreCookies[p])
                  ELSE StoreOk(NoCookies)],
     files |-> [p \in Platforms |-> NoFiles]]
EnvSecondOnly ==
    [api |-> TRUE,
     store |-> [p \in Platforms |->
                  IF p \in {"weibo", "twitter"} THEN StoreOk(CoreCookies[p])
                  ELSE StoreOk(NoCookies)],
     files |-> [p \in Platforms |-> NoFiles]]

Entries == {"public", "personal", "video", "news", "window"}

\* the trending fetchers read credentials but do not branch on them; the
\* window pipeline reads none
EnvsFor(entry) ==
    CASE entry = "personal" ->
            {EnvFresh, EnvAllCore, EnvNoApi, EnvFilesOnly, EnvFirstOnly, EnvSecondOnly}
      [] entry \in {"public", "video", "news"} -> {EnvAllCore, EnvNoApi}
      [] entry = "window" -> {EnvFresh}

\* what get_active_window_title(include_raw=True) finds
NoWindow == [has |-> FALSE, raw |-> <<>>]
Window(t) == [has |-> TRUE, raw |-> t]
Titles == {<<"abc", " - Chrome">>, <<"a">>, <<>>}
WindowsFor(entry) ==
    IF entry = "window" THEN {NoWindow} \cup {Window(t) : t \in Titles} ELSE {NoWindow}

\* answers of the query assistant
Replies ==
    {[raises |-> TRUE, lines |-> <<>>],
     [raises |-> FALSE, lines |-> <<<<"kw1">>, <<"1. ", "kw2">>, <<"kw3">>>>],
     [raises |-> FALSE, lines |-> <<<<"a">>, <<"kw1">>>>],
     [raises |-> FALSE, lines |-> <<>>]}

\* result blocks a search page can carry
MaxSearchItems == 1
SearchBlocks == {SearchItem("t1", "u1"), SearchItem("t2", "u1"), SearchItem("t1", ""),
                 SearchItem("", "u3")}
SearchResponses ==
    {[k |-> "exc", msg |-> m, items |-> <<>>] : m \in ExcMsgs}
    \cup {[k |-> "status", msg |-> "", items |-> <<>>]}
    \cup {[k |-> "data", msg |-> "", items |-> p] : p \in SeqsUpTo(SearchBlocks, MaxSearchItems)}

ResponsesFor(f) == IF f \in SearchFuncs THEN SearchResponses ELSE Responses

(***************************************************************************)
(* The state machine.                                                      *)
(***************************************************************************)
Init ==
    \E entry \in Entries, limit \in 0..MaxLimit, loc \in Locales :
      \E env \in EnvsFor(entry), active \in WindowsFor(entry) :
        /\ locale = loc
        /\ bilibiliApi = env.api
        /\ store = env.store
        /\ files = env.files
        /\ call = [entry |-> entry, limit |-> limit, pc |-> "init", china |-> FALSE]
        /\ branches = <<>>
        /\ doneOrder = <<>>
        /\ win = [active |-> active, sanitized |-> AbsentText, arg |-> <<>>,
                  queries |-> <<>>, valid |-> <<>>, prompt |-> Absent]
        /\ ret = NoEnvelope

Environment == <<locale, bilibiliApi, store, files>>

\* fetch_public_content / fetch_personal_dynamics up to the gather
CallAggregation ==
    /\ call.pc = "init"
    /\ call.entry \in {"public", "personal"}
    /\ LET china_region == is_china_region
           fs == IF call.entry = "public"
                 THEN IF china_region
                      THEN <<"fetch_bilibili_trending", "fetch_weibo_trending">>
                      ELSE <<"fetch_reddit_popular", "fetch_twitter_trending">>
                 ELSE IF china_region
                      THEN <<"fetch_bilibili_personal_dynamic", "fetch_weibo_personal_dynamic">>
                      ELSE <<"fetch_reddit_personal_dynamic", "fetch_twitter_personal_dynamic">>
       IN  /\ call' = [call EXCEPT !.pc = "gather", !.china = china_region]
           /\ branches' = <<NewBranch(fs[1], <<>>, call.limit), NewBranch(fs[2], <<>>, call.limit)>>
    /\ UNCHANGED <<Environment, doneOrder, win, ret>>

\* fetch_video_content / fetch_news_content: _fetch_content_by_region up to its await
CallSingle ==
    /\ call.pc = "init"
    /\ call.entry \in {"video", "news"}
    /\ LET china_region == is_china_region
           f == IF call.entry = "video"
                THEN IF china_region THEN "fetch_bilibili_trending" ELSE "fetch_reddit_popular"
                ELSE IF china_region THEN "fetch_weibo_trending" ELSE "fetch_twitter_trending"
       IN  /\ call' = [call EXCEPT !.pc = "gather", !.china = china_region]
           /\ branches' = <<NewBranch(f, <<>>, call.limit)>>
    /\ UNCHANGED <<Environment, doneOrder, win, ret>>

\* generate_diverse_queries reads the region itself, before its first await,
\* and writes the prompt for Baidu in Chinese or for Google in English
PromptFor(china_region) == IF china_region THEN "zh, Baidu" ELSE "en, Google"

\* variant: the title is not tested; the assistant is asked about whatever
\* get_active_window_title gave
CallWindowWithoutTitleTest ==
    /\ call.pc = "init"
    /\ call.entry = "window"
    /\ call' = [call EXCEPT !.pc = "queries", !.china = is_china_region]
    /\ win' = [win EXCEPT !.sanitized = Sanitize(win.active.raw),
                          !.arg = clean_window_title(win.active.raw),
                          !.prompt = PromptFor(is_china_region)]
    /\ UNCHANGED <<Environment, branches, doneOrder, ret>>

\* fetch_window_context_content up to the await of generate_diverse_queries
CallWindow ==
    /\ call.pc = "init"
    /\ call.entry = "window"
    /\ LET china_region == is_china_region
       IN  IF ~win.active.has
           THEN /\ call' = [call EXCEPT !.pc = "returned", !.china = china_region]
                /\ ret' = WindowEnvelope(FALSE, ErrNoTitle, Absent, AbsentText, <<>>, <<>>)
                /\ win' = win
           ELSE /\ call' = [call EXCEPT !.pc = "queries", !.china = china_region]
                /\ win' = [win EXCEPT !.sanitized = Sanitize(win.active.raw),
                                      !.arg = clean_window_title(win.active.raw),
                                      !.prompt = PromptFor(is_china_region)]
                /\ ret' = ret
    /\ UNCHANGED <<Environment, branches, doneOrder>>

ValidQuery(q) == q # <<>> /\ CharLen(q) >= 2

\* the assistant answers; fetch_window_context_content runs on to its gather
QueriesReply ==
    /\ call.pc = "queries"
    /\ \E reply \in Replies :
         LET search_queries == generate_diverse_queries(win.arg, reply)
             valid_queries == SelectSeq(search_queries, ValidQuery)
             search_func == IF call.china THEN "search_baidu" ELSE "search_google"
         IN  IF search_queries = <<>> \/ valid_queries = <<>>
             THEN /\ call' = [call EXCEPT !.pc = "returned"]
                  /\ ret' = WindowEnvelope(FALSE, ErrNoKeywords, Absent, win.sanitized, <<>>, <<>>)
                  /\ win' = [win EXCEPT !.queries = search_queries]
                  /\ branches' = branches
             ELSE /\ call' = [call EXCEPT !.pc = "gather"]
                  /\ win' = [win EXCEPT !.queries = search_queries, !.valid = valid_queries]
                  /\ branches' = [i \in 1..Len(valid_queries) |->
                                    NewBranch(search_func, valid_queries[i], call.limit)]
                  /\ ret' = ret
    /\ UNCHANGED <<Environment, doneOrder>>

\* a coroutine takes the step it computed
Step(i, step, kind, isFallback) ==
    /\ branches' = [branches EXCEPT ![i] =
          [@ EXCEPT !.pc = step.next,
                    !.out = IF step.next = "done" THEN Returned(step.val) ELSE @,
                    !.prim = IF step.next = "primary" THEN @ + 1 ELSE @,
                    !.fb = IF step.next = "fallback" THEN @ + 1 ELSE @,
                    !.primKind = IF kind # Absent THEN kind ELSE @,
                    !.fbres = IF isFallback THEN step.val ELSE @]]
    /\ doneOrder' = IF step.next = "done" THEN Append(doneOrder, i) ELSE doneOrder

\* a launched coroutine runs up to its first request
BranchStart(i) ==
    /\ branches[i].pc = "new"
    /\ Step(i, Begin(branches[i]), Absent, FALSE)
    /\ UNCHANGED <<Environment, call, win, ret>>

\* variant: a credential the platform reports as expired is removed from the store
CredentialsPurgedOnExpiry(b, resp) ==
    [store |-> IF b.f = "fetch_weibo_personal_dynamic" /\ resp.k = "notok"
               THEN [store EXCEPT !["weibo"] = StoreOk(NoCookies)]
               ELSE store,
     files |-> files]

\* the cookies are handed to the request as an argument; what the response
\* sets lives in the client of the `async with` block and is written nowhere
CredentialsAfter(b, resp) == [store |-> store, files |-> files]

\* the answer to the primary request arrives
PrimaryResponse(i) ==
    /\ branches[i].pc = "primary"
    /\ \E resp \in ResponsesFor(branches[i].f) :
         /\ Step(i, OnPrimary(branches[i], resp), resp.k, FALSE)
         /\ store' = CredentialsAfter(branches[i], resp).store
         /\ files' = CredentialsAfter(branches[i], resp).files
    /\ UNCHANGED <<locale, bilibiliApi, call, win, ret>>

\* the answer to the fallback request arrives
FallbackResponse(i) ==
    /\ branches[i].pc = "fallback"
    /\ \E resp \in ResponsesFor(branches[i].f) :
         /\ Step(i, OnFallback(branches[i], resp), Absent, TRUE)
         /\ store' = CredentialsAfter(branches[i], resp).store
         /\ files' = CredentialsAfter(branches[i], resp).files
    /\ UNCHANGED <<locale, bilibiliApi, call, win, ret>>

\* an exception leaves the coroutine (one raised outside its own handlers, or
\* by a fetch function handed to _fetch_content_by_region)
BranchFault(i) ==
    /\ branches[i].pc \in {"new", "primary", "fallback"}
    /\ \E m \in ExcMsgs :
         branches' = [branches EXCEPT ![i] = [@ EXCEPT !.pc = "done", !.out = Raised(m)]]
    /\ doneOrder' = Append(doneOrder, i)
    /\ UNCHANGED <<Environment, call, win, ret>>

ReturnPublic ==
    /\ call.pc = "gather" /\ call.entry = "public"
    /\ GatherSettled(branches)
    /\ LET gather_results == GatherResults(branches, doneOrder)
       IN  ret' = fetch_public_content(call.china, gather_results[1], gather_results[2])
    /\ call' = [call EXCEPT !.pc = "returned"]
    /\ UNCHANGED <<Environment, branches, doneOrder, win>>

ReturnPersonal ==
    /\ call.pc = "gather" /\ call.entry = "personal"
    /\ GatherSettled(branches)
    /\ LET gather_results == GatherResults(branches, doneOrder)
       IN  ret' = fetch_personal_dynamics(call.china, gather_results[1], gather_results[2])
    /\ call' = [call EXCEPT !.pc = "returned"]
    /\ UNCHANGED <<Environment, branches, doneOrder, win>>

\* result = await fetch_func(limit): the single coroutine has returned or raised
ReturnSingle ==
    /\ call.pc = "gather" /\ call.entry \in {"video", "news"}
    /\ branches[1].pc = "done"
    /\ ret' = _fetch_content_by_region(call.china, call.entry, branches[1].out)
    /\ call' = [call EXCEPT !.pc = "returned"]
    /\ UNCHANGED <<Environment, branches, doneOrder, win>>

\* variant: the region of the envelope is read again when the call returns
ReturnWindowReadsRegionAgain ==
    /\ call.pc = "gather" /\ call.entry = "window"
    /\ GatherSettled(branches)
    /\ ret' = fetch_window_context_content(is_china_region, win,
                                           GatherResults(branches, doneOrder), call.limit)
    /\ call' = [call EXCEPT !.pc = "returned"]
    /\ UNCHANGED <<Environment, branches, doneOrder, win>>

ReturnWindow ==
    /\ call.pc = "gather" /\ call.entry = "window"
    /\ GatherSettled(branches)
    /\ ret' = fetch_window_context_content(call.china, win,
                                           GatherResults(branches, doneOrder), call.limit)
    /\ call' = [call EXCEPT !.pc = "returned"]
    /\ UNCHANGED <<Environment, branches, doneOrder, win>>

Next ==
    \/ CallAggregation
    \/ CallSingle
    \/ CallWindow
    \/ QueriesReply
    \/ \E i \in 1..Len(branches) : BranchStart(i)
    \/ \E i \in 1..Len(branches) : PrimaryResponse(i)
    \/ \E i \in 1..Len(branches) : FallbackResponse(i)
    \/ \E i \in 1..Len(branches) : BranchFault(i)
    \/ ReturnPublic
    \/ ReturnPersonal
    \/ ReturnSingle
    \/ ReturnWindow

Spec == Init /\ [][Next]_vars

(***************************************************************************)
(* Properties.                                                             *)
(***************************************************************************)
HasReturned == call.pc = "returned"

Settled(i) == branches[i].pc = "done"
BranchReturned(i) == Settled(i) /\ branches[i].out.kind = "ret"
BranchRaised(i) == Settled(i) /\ branches[i].out.kind = "exc"
BranchOk(i) == BranchReturned(i) /\ branches[i].out.val.success

Described(error) == error \notin {Absent, ""}

AggregationReturned(entry) ==
    HasReturned /\ call.entry = entry /\ Len(branches) = 2 /\ Len(ret.per) = 2

\* C1: in a two-branch fan-out, when one branch raises and the other succeeds,
\* the envelope has success = true, the entry of the raising branch is a failed
\* result with a non-empty error, and the entry of the other branch is the
\* result that branch returned.
C1_FaultIsolatedWithMessage ==
    \A entry \in {"public", "personal"} :
      AggregationReturned(entry) =>
        \A i \in 1..2 :
          (BranchRaised(i) /\ BranchOk(3 - i)) =>
            /\ ret.success
            /\ ~ret.per[i].res.success
            /\ Described(ret.per[i].res.error)
            /\ ret.per[3 - i].res = branches[3 - i].out.val

\* C2: the envelope of fetch_public_content has success equal to the OR of the
\* two branches' success (a raised fault counting as a failure); when both fail
\* an envelope is still returned, carrying the region and, under the two
\* platform keys of the region, both failed results.
C2_PublicSuccessIsOr ==
    AggregationReturned("public") =>
      /\ ret.success = (BranchOk(1) \/ BranchOk(2))
      /\ ~ret.success =>
           /\ ret.region = RegionName(is_china_region)
           /\ \A i \in 1..2 :
                /\ ret.per[i].key = PublicKeys(is_china_region)[i]
                /\ ~ret.per[i].res.success
                /\ BranchReturned(i) => ret.per[i].res = branches[i].out.val
                /\ BranchRaised(i) => ret.per[i].res.error = branches[i].out.msg

\* both trending branches failed, one of them by raising
C2_Witness ==
    /\ AggregationReturned("public")
    /\ ~ret.success
    /\ \E i \in 1..2 : BranchRaised(i) /\ BranchReturned(3 - i)

\* C3: the envelope of fetch_personal_dynamics has success = true if and only
\* if at least one of the two branches succeeded.
C3_PersonalSuccessIsOr ==
    AggregationReturned("personal") => (ret.success = (BranchOk(1) \/ BranchOk(2)))

PersonalPlatform(f) ==
    CASE f = "fetch_bilibili_personal_dynamic" -> "bilibili"
      [] f = "fetch_weibo_personal_dynamic" -> "weibo"
      [] f = "fetch_reddit_personal_dynamic" -> "reddit"
      [] f = "fetch_twitter_personal_dynamic" -> "twitter"

PersonalFetchers == {"fetch_bilibili_personal_dynamic", "fetch_weibo_personal_dynamic",
                     "fetch_reddit_personal_dynamic", "fetch_twitter_personal_dynamic"}

WithoutCookies(i) ==
    /\ branches[i].f \in PersonalFetchers
    /\ _get_platform_cookies(PersonalPlatform(branches[i].f)) = NoCookies

\* C4: a personal fetcher whose platform has no cookies issues no request at any
\* point of the call, and what it returns is a failure with a described error.
C4_NoCookiesNoRequest ==
    \A i \in 1..Len(branches) :
      WithoutCookies(i) =>
        /\ branches[i].prim = 0 /\ branches[i].fb = 0
        /\ branches[i].pc \notin {"primary", "fallback"}
        /\ BranchReturned(i) =>
             ~branches[i].out.val.success /\ Described(branches[i].out.val.error)

\* both personal fetchers of a region have returned without cookies
C4_Witness ==
    /\ AggregationReturned("personal")
    /\ \A i \in 1..2 : WithoutCookies(i) /\ BranchReturned(i)

\* C5: whatever the limit (0 included) and whatever the source sends, a
\* successful result of a fetcher has at most limit items.
C5_AtMostLimitItems ==
    \A i \in 1..Len(branches) :
      (branches[i].f \in Fetchers /\ BranchOk(i)) =>
        Len(branches[i].out.val.items) <= branches[i].limit

\* C6: every entry point returns a structure with a success flag, and when the
\* fetcher of a single-content call raises, the envelope has the shape the
\* two-branch orchestrator gives to a fault: success = false, the region, and
\* under the content key a failed result carrying the error.
C6_SingleFaultSameShape ==
    (HasReturned /\ call.entry \in {"video", "news"} /\ BranchRaised(1)) =>
      /\ ~ret.success
      /\ ret.region = RegionName(is_china_region)
      /\ Len(ret.per) = 1
      /\ ret.per[1].key = call.entry
      /\ ~ret.per[1].res.success
      /\ ret.per[1].res.error = branches[1].out.msg

RedirectedWeibo(i) ==
    /\ branches[i].f = "fetch_weibo_trending"
    /\ branches[i].primKind = "redirect"
    /\ BranchReturned(i)

\* C7: when the primary request of fetch_weibo_trending ends on a passport
\* redirect, the fetcher asks the fallback endpoint once and returns what the
\* fallback returned; when that is a success, the weibo entry of the envelope
\* of fetch_public_content is that success, without error, and the envelope
\* has success = true and no error.
C7_RedirectIsTransparent ==
    \A i \in 1..Len(branches) :
      RedirectedWeibo(i) =>
        /\ branches[i].prim = 1 /\ branches[i].fb = 1
        /\ branches[i].out.val = branches[i].fbres
        /\ (AggregationReturned("public") /\ branches[i].fbres.success) =>
             /\ ret.per[i].key = "weibo"
             /\ ret.per[i].res = branches[i].fbres
             /\ ret.per[i].res.error = Absent
             /\ ret.success /\ ret.error = Absent

\* the trending aggregation returned after a redirect and a successful fallback
C7_Witness ==
    /\ AggregationReturned("public")
    /\ RedirectedWeibo(2)
    /\ branches[2].fbres.success
    /\ branches[2].fbres.items # <<>>

\* C8 as amended: in a call of a fetcher or search function the primary request
\* is sent at most once (not at all when the call fails before its first
\* request), the fallback request at most once and only after the primary, and
\* a failed fallback is what the call returns.
C8_OneHopAtMost ==
    \A i \in 1..Len(branches) :
      LET b == branches[i]
      IN  /\ b.prim <= 1 /\ b.fb <= 1
          /\ b.fb = 1 => b.prim = 1
          /\ b.pc = "primary" => (b.prim = 1 /\ b.fb = 0)
          /\ b.pc = "fallback" => (b.prim = 1 /\ b.fb = 1)
          /\ (BranchReturned(i) /\ b.prim = 0) => ~b.out.val.success
          /\ (BranchReturned(i) /\ b.fb = 1 /\ ~b.fbres.success) =>
               (b.out.val = b.fbres /\ ~b.out.val.success)

\* a fetcher returned the failure of its fallback; another returned without a request
C8_Witness ==
    /\ \E i \in 1..Len(branches) :
         /\ BranchReturned(i) /\ branches[i].fb = 1
         /\ ~branches[i].fbres.success /\ Described(branches[i].fbres.error)
    /\ \E i \in 1..Len(branches) : BranchReturned(i) /\ branches[i].prim = 0

\* C8: a fetcher that has returned sent its primary request exactly once and its
\* fallback request at most once; a failed fallback is what it returns.
C8_PrimaryExactlyOnce ==
    \A i \in 1..Len(branches) :
      (branches[i].f \in Fetchers /\ BranchReturned(i)) =>
        /\ branches[i].prim = 1 /\ branches[i].fb <= 1
        /\ (branches[i].fb = 1 /\ ~branches[i].fbres.success) =>
             branches[i].out.val = branches[i].fbres

\* C9: the call of a fan-out returns only when every branch it launched has
\* returned or raised.
C9_ReturnAfterAllSettled ==
    (HasReturned /\ call.entry \in {"public", "personal", "window"}) =>
      \A i \in 1..Len(branches) : Settled(i)

\* a search stage of three branches returned; the branches settled in another
\* order than they were launched
C9_Witness ==
    /\ HasReturned /\ call.entry = "window"
    /\ Len(branches) = 3 /\ Len(doneOrder) = 3
    /\ doneOrder # <<1, 2, 3>>

SearchItems(i) == IF SearchOk(branches[i].out) THEN branches[i].out.val.items ELSE <<>>
Carries(i, key) == \E k \in 1..Len(SearchItems(i)) : DedupKey(SearchItems(i)[k]) = key
\* the first item of branch i with this key
FirstWith(i, key) ==
    LET items == SearchItems(i)
        k == CHOOSE k \in 1..Len(items) :
               /\ DedupKey(items[k]) = key
               /\ \A j \in 1..(k - 1) : DedupKey(items[j]) # key
    IN  items[k]
Carriers(key) == {i \in 1..Len(branches) : Carries(i, key)}
\* position of branch i in the order of completion
Rank(i) == CHOOSE k \in 1..Len(doneOrder) : doneOrder[k] = i
FirstLaunched(key) == CHOOSE i \in Carriers(key) : \A j \in Carriers(key) : i <= j
FirstCompleted(key) ==
    CHOOSE i \in Carriers(key) : \A j \in Carriers(key) : Rank(i) <= Rank(j)

WindowMerged == HasReturned /\ call.entry = "window" /\ ret.success

MaxPageItems == 1
MergeBlocks == {SearchItem("t1", "u1"), SearchItem("t2", "u1"), SearchItem("t1", ""),
                SearchItem("t3", "u2")}

SettledSearch(limit) ==
    {Returned(Ok(page)) : page \in SeqsUpTo(MergeBlocks, Min(limit, MaxPageItems)) \ {<<>>}}
    \cup {Returned(Fail(ErrNoParse)), Raised("")}

SettledBranch(f, query, limit, out) ==
    [NewBranch(f, query, limit) EXCEPT
        !.pc = "done", !.out = out, !.prim = 1,
        !.primKind = IF out.kind = "ret" THEN "data" ELSE Absent]

MergeQueries == <<<<"kw1">>, <<"kw2">>, <<"kw3">>>>

MergeInit ==
    \E loc \in Locales, limit \in 0..MaxLimit :
      \E o1, o2, o3 \in SettledSearch(limit) :
        /\ locale = loc
        /\ bilibiliApi = EnvFresh.api
        /\ store = EnvFresh.store
        /\ files = EnvFresh.files
        /\ call = [entry |-> "window", limit |-> limit, pc |-> "gather",
                   china |-> RegionDetection(loc).value]
        /\ branches =
             LET f == IF RegionDetection(loc).value THEN "search_baidu" ELSE "search_google"
                 outs == <<o1, o2, o3>>
             IN  [i \in 1..3 |-> SettledBranch(f, MergeQueries[i], limit, outs[i])]
        /\ doneOrder = <<1, 2, 3>>
        /\ win = [active |-> Window(<<"abc">>), sanitized |-> <<"abc">>, arg |-> <<"abc">>,
                  queries |-> MergeQueries, valid |-> MergeQueries]
        /\ ret = NoEnvelope

MergeNext == ReturnWindow

MergeSpec == MergeInit /\ [][MergeNext]_vars

\* C11: in a successful result of fetch_window_context_content(limit) every
\* item of search_results is an item of a successful search branch, no two
\* items have the same dedup key (url, or title without url), and there are at
\* most 2 * limit items.
C11_MergedUniqueAndCapped ==
    WindowMerged =>
      LET R == ret.search_results
      IN  /\ \A p \in 1..Len(R) :
               \E i \in 1..Len(branches) :
                 /\ SearchOk(branches[i].out)
                 /\ \E k \in 1..Len(SearchItems(i)) : SearchItems(i)[k] = R[p]
          /\ \A p, q \in 1..Len(R) : DedupKey(R[p]) = DedupKey(R[q]) => p = q
          /\ Len(R) <= 2 * call.limit

\* three branches brought three different keys and the limit is 1: the cut applies
C11_Witness ==
    /\ WindowMerged
    /\ call.limit = 1
    /\ Len(ret.search_results) = 2
    /\ \A i \in 1..3 : SearchOk(branches[i].out)
    /\ Cardinality({DedupKey(SearchItems(i)[1]) : i \in 1..3}) = 3

(***************************************************************************)
(* clean_window_title and generate_diverse_queries on their own: a title   *)
(* is cleaned, the result is cleaned again, and the assistant is asked     *)
(* about the title.                                                        *)
(***************************************************************************)
MaxTitlePieces == 3
MaxReplyLines == 3
TitlePieces == {"abc", "a", " - Chrome", " - 1", " [x]", ".py"}
TextTitles == SeqsUpTo(TitlePieces, MaxTitlePieces)
ReplyLines == {<<"kw1">>, <<"1. ", "kw2">>, <<"a">>, <<>>}
NoReply == [raises |-> FALSE, lines |-> <<>>]
TextReplies ==
    {[raises |-> TRUE, lines |-> <<>>]}
    \cup {[raises |-> FALSE, lines |-> l] : l \in SeqsUpTo(ReplyLines, MaxReplyLines)}

TextInit ==
    \E title \in TextTitles :
        /\ locale \in Locales
        /\ bilibiliApi = EnvFresh.api
        /\ store = EnvFresh.store
        /\ files = EnvFresh.files
        /\ call = [entry |-> "text", limit |-> 0, pc |-> "init", china |-> FALSE]
        /\ branches = <<>>
        /\ doneOrder = <<>>
        /\ win = [title |-> title, cleaned |-> AbsentText, again |-> AbsentText,
                  reply |-> NoReply, queries |-> <<>>]
        /\ ret = NoEnvelope

\* clean_window_title(title)
CleanTitle ==
    /\ call.pc = "init"
    /\ win' = [win EXCEPT !.cleaned = clean_window_title(win.title)]
    /\ call' = [call EXCEPT !.pc = "cleaned"]
    /\ UNCHANGED <<Environment, branches, doneOrder, ret>>

\* clean_window_title applied to what it returned
CleanAgain ==
    /\ call.pc = "cleaned"
    /\ win' = [win EXCEPT !.again = clean_window_title(win.cleaned)]
    /\ call' = [call EXCEPT !.pc = "again"]
    /\ UNCHANGED <<Environment, branches, doneOrder, ret>>

\* await generate_diverse_queries(title), the assistant raising or answering
AskQueries ==
    /\ call.pc = "cleaned"
    /\ \E reply \in TextReplies :
         win' = [win EXCEPT !.reply = reply,
                            !.queries = generate_diverse_queries(win.title, reply)]
    /\ call' = [call EXCEPT !.pc = "asked"]
    /\ UNCHANGED <<Environment, branches, doneOrder, ret>>

TextNext == CleanTitle \/ CleanAgain \/ AskQueries

TextSpec == TextInit /\ [][TextNext]_vars

Asked == call.pc = "asked"

\* C12: when the assistant raises and the cleaned title has at least 3
\* characters, generate_diverse_queries returns exactly 3 queries, each
\* non-empty and equal to the cleaned title.
C12_RaiseGivesTitleThrice ==
    (Asked /\ win.reply.raises /\ CharLen(win.cleaned) >= 3) =>
      /\ Len(win.queries) = 3
      /\ \A k \in 1..3 : win.queries[k] # <<>> /\ win.queries[k] = win.cleaned

\* the assistant raised for a title that cleaning shortened
C12_Witness ==
    /\ Asked /\ win.reply.raises
    /\ CharLen(win.cleaned) >= 3
    /\ win.cleaned # win.title
    /\ Len(win.queries) = 3

\* the lines of an answer that count as keywords, in order
KeywordLines(reply) ==
    SelectSeq([i \in 1..Len(reply.lines) |-> CleanLine(reply.lines[i])],
              LAMBDA line : line # <<>> /\ CharLen(line) >= 2)

FewKeywords == Asked /\ ~win.reply.raises /\ Len(KeywordLines(win.reply)) < 3

\* C13 as amended: when the assistant answers with fewer than 3 usable lines,
\* the usable lines are kept in order as the first queries and the cleaned
\* title fills the remaining places up to 3; with no usable line all three
\* queries are the cleaned title; with an empty cleaned title nothing is added.
C13_TitleFillsTheRest ==
    FewKeywords =>
      LET kept == KeywordLines(win.reply)
      IN  /\ \A k \in 1..Len(kept) : win.queries[k] = kept[k]
          /\ IF win.cleaned # <<>>
             THEN /\ Len(win.queries) = 3
                  /\ \A k \in (Len(kept) + 1)..3 : win.queries[k] = win.cleaned
             ELSE Len(win.queries) = Len(kept)

\* one usable line was kept in front of two copies of the title
C13_Witness ==
    /\ FewKeywords
    /\ Len(KeywordLines(win.reply)) = 1
    /\ win.cleaned # <<>>
    /\ win.queries = <<KeywordLines(win.reply)[1], win.cleaned, win.cleaned>>
    /\ win.queries[1] # win.cleaned

\* C13: when the assistant answers with fewer than 3 usable lines, three
\* queries are returned and every one of them equals the cleaned title.
C13_AllThreeAreTitle ==
    FewKeywords =>
      /\ Len(win.queries) = 3
      /\ \A k \in 1..3 : win.queries[k] = win.cleaned

\* C19: for every s = clean_window_title(t) of at least 3 characters,
\* clean_window_title(s) = s.
C19_CleanIsIdempotent ==
    (call.pc = "again" /\ CharLen(win.cleaned) >= 3) => win.again = win.cleaned

\* C14: when the captured window title cannot be cleaned to at least 3
\* characters, fetch_window_context_content sends no search request and
\* returns success = false; and whenever the searches are launched there are
\* exactly 3 of them, each for a non-empty query.
C14_ShortTitleStopsPipeline ==
    (call.entry = "window" /\ win.active.has) =>
      /\ CharLen(clean_window_title(win.active.raw)) < 3 =>
           /\ \A i \in 1..Len(branches) : branches[i].prim = 0 /\ branches[i].fb = 0
           /\ HasReturned => ~ret.success
      /\ call.pc = "gather" =>
           /\ Len(branches) = 3
           /\ \A i \in 1..3 : branches[i].query # <<>>

(***************************************************************************)
(* is_china_region on its own, over what the two locale lookups can do.    *)
(***************************************************************************)
PosixNames ==
    {<<l, sep, t>> \o e : l \in {"zh", "ZH", "en"}, sep \in {"_", "-"},
                          t \in {"CN", "cn", "HK", "TW", "MO", "US"},
                          e \in {<<>>, <<".UTF-8">>}}
WindowsNames ==
    {<<"Chinese", " (Simplified)", "_", "China">>,
     <<"Chinese", " (Simplified)", "_", "China", ".936">>,
     <<"Chinese", "_", "China">>,
     <<"Chinese", "_", "Simplified", "_", "China">>,
     <<"Chinese", " (Traditional)", "_", "Hong Kong SAR">>,
     <<"Chinese", " (Traditional)", "_", "Macao SAR">>,
     <<"Chinese", " (Traditional)", "_", "Taiwan">>}
MalformedNames == {<<>>, <<"_">>, <<".UTF-8">>, <<"zh">>, <<"zh", "_">>, <<"C">>}
LocaleNames == PosixNames \cup WindowsNames \cup MalformedNames
Lookups ==
    {LocaleValue(s) : s \in LocaleNames} \cup {LocaleNone, LocaleValueError, LocaleError}

RegionInit ==
    /\ locale \in [system : Lookups, default : Lookups]
    /\ bilibiliApi = EnvFresh.api
    /\ store = EnvFresh.store
    /\ files = EnvFresh.files
    /\ call = [entry |-> "is_china_region", limit |-> 0, pc |-> "init", china |-> FALSE]
    /\ branches = <<>>
    /\ doneOrder = <<>>
    /\ win = [active |-> NoWindow, sanitized |-> AbsentText, arg |-> <<>>,
              queries |-> <<>>, valid |-> <<>>]
    /\ ret = NoEnvelope

\* a call of is_china_region()
Detect ==
    /\ call.pc = "init"
    /\ LET detection == RegionDetection(locale)
       IN  call' = [call EXCEPT !.pc = IF detection.raises THEN "raised" ELSE "returned",
                                !.china = detection.value]
    /\ UNCHANGED <<Environment, branches, doneOrder, win, ret>>

RegionNext == Detect

RegionSpec == RegionInit /\ [][RegionNext]_vars

HasPiece(s, pieces) == \E i \in 1..Len(s) : s[i] \in pieces
\* a Hong Kong, Taiwan or Macau locale name
OutsideMainland(s) ==
    HasPiece(s, {"HK", "TW", "MO", "Hong Kong SAR", "Taiwan", "Macao SAR"})
\* zh_CN in any case and with either separator, or a Windows name of China
MainlandName(s) ==
    \/ Len(s) >= 3 /\ s[1] \in {"zh", "ZH"} /\ s[2] \in {"_", "-"} /\ s[3] \in {"CN", "cn"}
    \/ HasPiece(s, {"Chinese"}) /\ HasPiece(s, {"China"})
LookupsDone == {locale.system, locale.default}

\* C15: is_china_region never raises, whatever the two locale lookups return
\* or throw; it answers False when no lookup yields a locale name, and when
\* the names the lookups yield are Hong Kong, Taiwan or Macau variants; it
\* answers True only for a mainland name.
C15_DetectionNeverRaises ==
    call.pc # "init" =>
      /\ call.pc = "returned"
      /\ (\A l \in LookupsDone : l.k # "value" \/ l.s = <<>>) => ~call.china
      /\ (\A l \in LookupsDone : l.k = "value" => OutsideMainland(l.s)) => ~call.china
      /\ call.china => \E l \in LookupsDone : l.k = "value" /\ MainlandName(l.s)

\* the first lookup threw and the second reported a Hong Kong locale
C15_Witness ==
    /\ call.pc = "returned"
    /\ locale.system = LocaleError
    /\ locale.default.k = "value" /\ OutsideMainland(locale.default.s)
    /\ ~call.china

\* the region of the system, read off the locale names themselves
SystemInChina == \E l \in LookupsDone : l.k = "value" /\ MainlandName(l.s)

RegionFetchers(entry, china) ==
    CASE entry = "public" /\ china -> {"fetch_bilibili_trending", "fetch_weibo_trending"}
      [] entry = "public" /\ ~china -> {"fetch_reddit_popular", "fetch_twitter_trending"}
      [] entry = "personal" /\ china ->
            {"fetch_bilibili_personal_dynamic", "fetch_weibo_personal_dynamic"}
      [] entry = "personal" /\ ~china ->
            {"fetch_reddit_personal_dynamic", "fetch_twitter_personal_dynamic"}

RegionKeys(entry, china) ==
    CASE entry = "public" /\ china -> {"bilibili", "weibo"}
      [] entry = "public" /\ ~china -> {"reddit", "twitter"}
      [] entry = "personal" /\ china -> {"bilibili_dynamic", "weibo_dynamic"}
      [] entry = "personal" /\ ~china -> {"reddit_dynamic", "twitter_dynamic"}

\* C16: an aggregation call launches the two fetchers of the region of the
\* system, each once, and no other; the envelope it returns carries that
\* region and one entry under each of the region's two platform keys.
C16_TwoFetchersOfTheRegion ==
    (call.entry \in {"public", "personal"} /\ call.pc # "init") =>
      /\ Len(branches) = 2
      /\ {branches[i].f : i \in 1..2} = RegionFetchers(call.entry, SystemInChina)
      /\ branches[1].f # branches[2].f
      /\ HasReturned =>
           /\ ret.region = (IF SystemInChina THEN "china" ELSE "non-china")
           /\ Len(ret.per) = 2
           /\ {ret.per[i].key : i \in 1..2} = RegionKeys(call.entry, SystemInChina)
           /\ ret.per[1].key # ret.per[2].key

\* a personal aggregation returned outside China after both fetchers sent a request
C16_Witness ==
    /\ AggregationReturned("personal")
    /\ ~SystemInChina
    /\ \A i \in 1..2 : branches[i].prim = 1
    /\ ret.region = "non-china"

(***************************************************************************)
(* Formatters.  A formatted text is the list of its lines ("\n".join), a   *)
(* line the list of its pieces.  The detail lines of an item (author,      *)
(* score, abstract) are folded into the line of the item.                  *)
(***************************************************************************)
FormatLimit == 5
EmptyLine == <<>>
HeaderBilibili == <<"[Bilibili recommendations]">>
HeaderWeibo == <<"[Weibo hot topics]">>
HeaderReddit == <<"[Reddit Hot Posts]">>
HeaderTwitter == <<"[Twitter Trending Topics]">>
NoTrendingZh == <<"(zh) cannot fetch recommended content for now">>
NoTrendingEn == <<"Unable to fetch trending content at the moment">>
NoVideoZh == <<"(zh) cannot fetch video recommendations for now">>
NoVideoEn == <<"Unable to fetch trending posts at the moment">>
NoNewsZh == <<"(zh) cannot fetch hot topics for now">>
NoNewsEn == <<"Unable to fetch trending topics at the moment">>
NoDynamicsZh == <<"(zh) cannot fetch followed dynamics for now">>
NoDynamicsEn == <<"No personal timeline available">>
WindowFailedZh == "(zh) failed to fetch window context: "
WindowFailedEn == "Failed to fetch window context: "
UnknownErrorZh == "(zh) unknown error"
UnknownErrorEn == "Unknown error"
NoInfoZh == <<"(zh) no related information found">>
NoInfoEn == <<"No related information found">>

\* for i, item in enumerate(items[:limit], 1): f"{i}. {title}" ...
ItemLines(items, limit) ==
    LET shown == Take(items, limit)
    IN  [i \in 1..Len(shown) |-> <<ToString(i), ". ", shown[i]>>]

\* _format_bilibili_videos, _format_weibo_trending, _format_reddit_posts,
\* _format_twitter_trending: header, items, empty line
FormatList(header, items) == <<header>> \o ItemLines(items, FormatLimit) \o <<EmptyLine>>

\* envelope.get(key, {})
PerGet(envelope, key) ==
    LET hits == SelectSeq(envelope.per, LAMBDA e : e.key = key)
    IN  IF hits = <<>> THEN Fail(Absent) ELSE hits[1].res

\* envelope.get('region', 'china')
RegionOf(envelope) == IF envelope.region = Absent THEN "china" ELSE envelope.region

format_trending_content(trending_content) ==
    IF RegionOf(trending_content) = "china"
    THEN LET bilibili_data == PerGet(trending_content, "bilibili")
             weibo_data == PerGet(trending_content, "weibo")
             output_lines ==
                (IF bilibili_data.success
                 THEN FormatList(HeaderBilibili, bilibili_data.items) ELSE <<>>)
                \o (IF weibo_data.success
                    THEN FormatList(HeaderWeibo, weibo_data.items) ELSE <<>>)
         IN  IF output_lines = <<>> THEN <<NoTrendingZh>> ELSE output_lines
    ELSE LET reddit_data == PerGet(trending_content, "reddit")
             twitter_data == PerGet(trending_content, "twitter")
             output_lines ==
                (IF reddit_data.success
                 THEN FormatList(HeaderReddit, reddit_data.items) ELSE <<>>)
                \o (IF twitter_data.success
                    THEN FormatList(HeaderTwitter, twitter_data.items) ELSE <<>>)
         IN  IF output_lines = <<>> THEN <<NoTrendingEn>> ELSE output_lines

format_video_content(video_content) ==
    LET video_data == PerGet(video_content, "video")
    IN  IF RegionOf(video_content) = "china"
        THEN IF video_data.success THEN FormatList(HeaderBilibili, video_data.items)
             ELSE <<NoVideoZh>>
        ELSE IF video_data.success THEN FormatList(HeaderReddit, video_data.items)
             ELSE <<NoVideoEn>>

format_news_content(news_content) ==
    LET news_data == PerGet(news_content, "news")
    IN  IF RegionOf(news_content) = "china"
        THEN IF news_data.success THEN FormatList(HeaderWeibo, news_data.items)
             ELSE <<NoNewsZh>>
        ELSE IF news_data.success THEN FormatList(HeaderTwitter, news_data.items)
             ELSE <<NoNewsEn>>

\* one platform of format_personal_dynamics: skipped unless it succeeded with items
DynamicsBlock(dyn_data, title) ==
    IF dyn_data.success /\ dyn_data.items # <<>>
    THEN <<title>> \o ItemLines(dyn_data.items, FormatLimit) \o <<EmptyLine>>
    ELSE <<>>

\* "\n".join(output_lines).strip(): the trailing empty line goes
StripLines(lines) ==
    IF lines # <<>> /\ Last(lines) = EmptyLine THEN DropLast(lines) ELSE lines

format_personal_dynamics(data) ==
    IF RegionOf(data) = "china"
    THEN LET output_lines ==
                DynamicsBlock(PerGet(data, "bilibili_dynamic"), <<"[Bilibili followed dynamics]">>)
                \o DynamicsBlock(PerGet(data, "weibo_dynamic"), <<"[Weibo followed dynamics]">>)
         IN  IF StripLines(output_lines) = <<>> THEN <<NoDynamicsZh>>
             ELSE StripLines(output_lines)
    ELSE LET output_lines ==
                DynamicsBlock(PerGet(data, "reddit_dynamic"), <<"[Reddit Subscribed Posts]">>)
                \o DynamicsBlock(PerGet(data, "twitter_dynamic"), <<"[Twitter Timeline]">>)
         IN  IF StripLines(output_lines) = <<>> THEN <<NoDynamicsEn>>
             ELSE StripLines(output_lines)

\* the lines of one search result: its title, and its link when it has a url
ResultLines(results, i, china_region) ==
    << <<ToString(i), ". ", results[i].title>> >>
    \o (IF results[i].url # ""
        THEN << <<IF china_region THEN "(zh) link: " ELSE "Link: ", results[i].url>> >>
        ELSE <<>>)

RECURSIVE AllResultLines(_, _, _)
AllResultLines(results, i, china_region) ==
    IF i > Len(results) THEN <<>>
    ELSE ResultLines(results, i, china_region) \o AllResultLines(results, i + 1, china_region)

\* china_region is read again by the formatter, not taken from the envelope
format_window_context_content(content, china_region) ==
    IF ~content.success
    THEN << <<IF china_region THEN WindowFailedZh ELSE WindowFailedEn,
              IF content.error # Absent THEN content.error
              ELSE IF china_region THEN UnknownErrorZh ELSE UnknownErrorEn>> >>
    ELSE LET window_title == IF content.window_title = AbsentText THEN <<>>
                             ELSE content.window_title
             results == content.search_results
         IN  << <<IF china_region THEN "[(zh) active window]" ELSE "[Active Window]">>
                \o window_title >>
             \o (IF content.search_queries # <<>>
                 THEN << <<IF china_region THEN "[(zh) search keywords]"
                           ELSE "[Search Keywords]">> >>
                 ELSE <<>>)
             \o <<EmptyLine,
                  <<IF china_region THEN "[(zh) related information]"
                    ELSE "[Related Information]">> >>
             \o AllResultLines(results, 1, china_region)
             \o (IF results = <<>> THEN <<IF china_region THEN NoInfoZh ELSE NoInfoEn>>
                 ELSE <<>>)

(***************************************************************************)
(* The formatters on their own: an entry point has returned its envelope,  *)
(* the caller hands it to the formatter of that entry point.               *)
(***************************************************************************)
FormatItems == SeqsUpTo({"good", "noid"}, MaxItems)

\* how a branch of an aggregation, or the single fetcher, can have ended
FormatOutcomes ==
    {Returned(Ok(items)) : items \in FormatItems}
    \cup {Returned(Fail(m)) : m \in {"", StatusError}}
    \cup {Raised(m) : m \in ExcMsgs}

FormatWindow == [active |-> Window(<<"abc">>), sanitized |-> <<"abc">>, arg |-> <<"abc">>,
                 queries |-> MergeQueries, valid |-> MergeQueries]

\* the envelopes entry can return in this region
EnvelopesOf(entry, china_region) ==
    CASE entry = "public" ->
           {fetch_public_content(china_region, o1, o2) : o1, o2 \in FormatOutcomes}
      [] entry = "personal" ->
           {fetch_personal_dynamics(china_region, o1, o2) : o1, o2 \in FormatOutcomes}
      [] entry \in {"video", "news"} ->
           {_fetch_content_by_region(china_region, entry, o) : o \in FormatOutcomes}
      [] entry = "window" ->
           {WindowEnvelope(FALSE, ErrNoTitle, Absent, AbsentText, <<>>, <<>>),
            WindowEnvelope(FALSE, ErrNoKeywords, Absent, <<"abc">>, <<>>, <<>>)}
           \cup {Envelope(FALSE, m, Absent, <<>>) : m \in ExcMsgs}
           \cup {fetch_window_context_content(china_region, FormatWindow, <<o1, o2, o3>>, limit) :
                   o1, o2, o3 \in SettledSearch(MaxPageItems), limit \in 1..MaxLimit}

FormatInit ==
    \E loc \in Locales, entry \in {"public", "personal", "video", "news", "window"} :
      /\ locale = loc
      /\ bilibiliApi = EnvFresh.api
      /\ store = EnvFresh.store
      /\ files = EnvFresh.files
      /\ call = [entry |-> entry, limit |-> MaxLimit, pc |-> "returned",
                 china |-> RegionDetection(loc).value]
      /\ branches = <<>>
      /\ doneOrder = <<>>
      /\ win = [text |-> <<>>]
      /\ ret \in EnvelopesOf(entry, RegionDetection(loc).value)

Formatter(entry, envelope, china_region) ==
    CASE entry = "public" -> format_trending_content(envelope)
      [] entry = "personal" -> format_personal_dynamics(envelope)
      [] entry = "video" -> format_video_content(envelope)
      [] entry = "news" -> format_news_content(envelope)
      [] entry = "window" -> format_window_context_content(envelope, china_region)

Format ==
    /\ call.pc = "returned"
    /\ win' = [text |-> Formatter(call.entry, ret, RegionDetection(locale).value)]
    /\ call' = [call EXCEPT !.pc = "formatted"]
    /\ UNCHANGED <<locale, bilibiliApi, store, files, branches, doneOrder, ret>>

\* the locale of the process changes between the return of the envelope and
\* its formatting
LocaleChangesBeforeFormat ==
    /\ call.pc = "returned"
    /\ locale' \in Locales \ {locale}
    /\ UNCHANGED <<bilibiliApi, store, files, call, branches, doneOrder, win, ret>>

FormatNext == Format \/ LocaleChangesBeforeFormat

FormatSpec == FormatInit /\ [][FormatNext]_vars

Formatted == call.pc = "formatted"

\* the sentences a formatter returns when it has nothing to show
FixedSentences == {NoTrendingZh, NoTrendingEn, NoVideoZh, NoVideoEn, NoNewsZh, NoNewsEn,
                   NoDynamicsZh, NoDynamicsEn}

\* the error texts the envelope carries, its own and those of its branches
ErrorTexts(envelope) ==
    ({envelope.error} \cup {envelope.per[i].res.error : i \in 1..Len(envelope.per)})
    \ {Absent, ""}

ShowsText(text, e) ==
    \E l \in 1..Len(text) : \E p \in 1..Len(text[l]) : text[l][p] = e

EveryBranchFailed(envelope) ==
    IF envelope.per = <<>> THEN ~envelope.success
    ELSE \A i \in 1..Len(envelope.per) : ~envelope.per[i].res.success

\* C17: whatever the formatter (trending, personal, video, news, window
\* context), when every branch of the envelope failed the text is one fixed
\* localized sentence, and the text never shows the error field of the
\* envelope or of one of its branches.
C17_FailureTextIsFixed ==
    Formatted =>
      /\ EveryBranchFailed(ret) => Len(win.text) = 1 /\ win.text[1] \in FixedSentences
      /\ \A e \in ErrorTexts(ret) : ~ShowsText(win.text, e)

NothingToRender(envelope) ==
    \A i \in 1..Len(envelope.per) :
      ~envelope.per[i].res.success \/ envelope.per[i].res.items = <<>>

PlatformHeaders == {HeaderBilibili, HeaderWeibo, HeaderReddit, HeaderTwitter}

\* C18: for the trending and the personal formatter, when no branch has an
\* item to render (it failed, or succeeded with an empty list) the text is
\* exactly the localized "nothing available" sentence: not empty, and no
\* platform header without items.
C18_NothingAvailableSentence ==
    Formatted /\ call.entry \in {"public", "personal"} /\ NothingToRender(ret) =>
      win.text \in {<<NoTrendingZh>>, <<NoTrendingEn>>, <<NoDynamicsZh>>, <<NoDynamicsEn>>}

(***************************************************************************)
(* Core credential fields of the personal fetchers.                        *)
(***************************************************************************)
CoreField(platform_name) ==
    CASE platform_name = "bilibili" -> "SESSDATA"
      [] platform_name = "weibo" -> "SUB"
      [] platform_name = "reddit" -> "reddit_session"
      [] platform_name = "twitter" -> "auth_token"

\* the platform of branch i has cookies, but not its core field
LacksCoreField(i) ==
    /\ branches[i].f \in PersonalFetchers
    /\ _get_platform_cookies(PersonalPlatform(branches[i].f)) # NoCookies
    /\ CoreField(PersonalPlatform(branches[i].f))
         \notin _get_platform_cookies(PersonalPlatform(branches[i].f))

\* C20: a personal fetcher whose platform has a non-empty cookie set without
\* the core field of the platform (Bilibili SESSDATA, Weibo SUB, Reddit
\* reddit_session, Twitter auth_token) issues no request and returns
\* success = false.
C20_CoreFieldGatesFetcher ==
    \A i \in 1..Len(branches) :
      LacksCoreField(i) =>
        /\ branches[i].prim = 0 /\ branches[i].fb = 0
        /\ branches[i].pc \notin {"primary", "fallback"}
        /\ BranchReturned(i) => ~branches[i].out.val.success

(***************************************************************************)
(* _get_platform_cookies on its own: the store and the three candidate     *)
(* files of a platform are given, the reader resolves the cookies.         *)
(***************************************************************************)
\* the candidates the loop opens: those that exist, up to the one it returns
RECURSIVE OpenedFiles(_, _)
OpenedFiles(cands, k) ==
    IF k > Len(cands) THEN <<>>
    ELSE IF cands[k].state = "missing" THEN OpenedFiles(cands, k + 1)
    ELSE IF cands[k].state = "ok" /\ cands[k].cookies # NoCookies THEN <<k>>
    ELSE <<k>> \o OpenedFiles(cands, k + 1)

\* the files _get_platform_cookies opens: none when the store gave cookies
FilesRead(platform_name) ==
    IF ~store[platform_name].raises /\ store[platform_name].cookies # NoCookies
    THEN <<>>
    ELSE OpenedFiles(files[platform_name], 1)

CookieStores == {StoreOk(NoCookies), StoreOk({"SUB"}), StoreRaises}
CookieFiles == {FileMissing, FileCorrupt, FileWith(NoCookies),
                FileWith({"home"}), FileWith({"config"}), FileWith({"cwd"})}

CookieInit ==
    \E s \in CookieStores, f1, f2, f3 \in CookieFiles :
      /\ locale \in Locales
      /\ bilibiliApi = TRUE
      /\ store = [p \in Platforms |-> s]
      /\ files = [p \in Platforms |-> <<f1, f2, f3>>]
      /\ call = [entry |-> "cookies", limit |-> 0, pc |-> "init", china |-> FALSE]
      /\ branches = <<>>
      /\ doneOrder = <<>>
      /\ win = [platform |-> Absent, cookies |-> NoCookies, read |-> <<>>]
      /\ ret = NoEnvelope

ReadCookies ==
    /\ call.pc = "init"
    /\ \E p \in Platforms :
         win' = [platform |-> p, cookies |-> _get_platform_cookies(p), read |-> FilesRead(p)]
    /\ call' = [call EXCEPT !.pc = "returned"]
    /\ UNCHANGED <<locale, bilibiliApi, store, files, branches, doneOrder, ret>>

CookieNext == ReadCookies

CookieSpec == CookieInit /\ [][CookieNext]_vars

CookiesRead == call.entry = "cookies" /\ call.pc = "returned"

StoreGives(p) == ~store[p].raises /\ store[p].cookies # NoCookies
Yields(p, k) == files[p][k].state = "ok" /\ files[p][k].cookies # NoCookies
FirstYielding(p, k) == Yields(p, k) /\ \A j \in 1..(k - 1) : ~Yields(p, j)

C22_CredentialsUnchanged == [][store' = store /\ files' = files]_vars

\* a personal aggregation has returned after the platform refused the stored
\* Weibo credential, which is still in the store
C22_Witness ==
    /\ AggregationReturned("personal")
    /\ \E i \in 1..Len(branches) :
         /\ branches[i].f = "fetch_weibo_personal_dynamic"
         /\ branches[i].prim = 1
         /\ BranchReturned(i)
         /\ branches[i].out.val.error = ErrWeiboExpired
    /\ store["weibo"].cookies # NoCookies

WithFallback == {"fetch_weibo_trending", "fetch_twitter_personal_dynamic"}

\* the outcomes of a primary request that are transport or shape failures
PrimaryFailures == {"exc", "status", "redirect", "notdict", "notok"}

\* C23: in a fetcher that has a fallback (Weibo trending, Twitter personal
\* timeline) every transport failure (timeout, connection failure, non-2xx
\* status) and every shape failure (denial page, payload of unexpected type,
\* payload reporting no data) of the primary request leads to the fallback
\* request, and what the fetcher returns is the result of the fallback.
C23_FailureInvokesFallback ==
    \A i \in 1..Len(branches) :
      /\ branches[i].f \in WithFallback
      /\ branches[i].primKind \in PrimaryFailures
      /\ BranchReturned(i)
      => /\ branches[i].fb = 1
         /\ branches[i].out.val = branches[i].fbres

(***************************************************************************)
(* The item loops of the fetchers on their own, with one more kind of      *)
(* source item: bad, an item on which the field accesses of the loop raise *)
(* (no dict where one is read with .get, null where a nested dict is       *)
(* expected, a number where a string goes into a regular expression).      *)
(***************************************************************************)
SourceItemKinds == ItemKinds \cup {"bad"}

\* for item in items: <parse>; out.append(...); if len(out) >= limit: break
\* guarded: the parse of one item runs inside its own try / except
RECURSIVE ItemLoop(_, _, _, _, _)
ItemLoop(items, limit, keep, guarded, out) ==
    IF items = <<>> THEN [raised |-> FALSE, out |-> out]
    ELSE IF Head(items) = "bad"
         THEN IF guarded THEN ItemLoop(Tail(items), limit, keep, guarded, out)
              ELSE [raised |-> TRUE, out |-> out]
    ELSE IF Head(items) \notin keep THEN ItemLoop(Tail(items), limit, keep, guarded, out)
    ELSE LET out2 == Append(out, Head(items))
         IN  IF Len(out2) >= limit THEN [raised |-> FALSE, out |-> out2]
             ELSE ItemLoop(Tail(items), limit, keep, guarded, out2)

\* for item in items[:limit]: no break inside the loop
SliceLoop(items, limit, keep) ==
    ItemLoop(Take(items, limit), Len(items) + 1, keep, FALSE, <<>>)

ItemFetchers == {"fetch_bilibili_trending", "fetch_bilibili_personal_dynamic",
                 "fetch_weibo_personal_dynamic", "fetch_reddit_popular",
                 "fetch_reddit_personal_dynamic", "fetch_twitter_personal_dynamic"}

\* the loop of fetcher f over the items of a well-formed response
LoopOf(f, items, limit) ==
    CASE f = "fetch_bilibili_trending" -> ItemLoop(items, limit, {"good", "ad"}, FALSE, <<>>)
      [] f = "fetch_bilibili_personal_dynamic" ->
            ItemLoop(items, limit, {"good", "noid"}, TRUE, <<>>)
      [] f = "fetch_weibo_personal_dynamic" ->
            ItemLoop(items, limit, {"good", "noid"}, FALSE, <<>>)
      [] f \in {"fetch_reddit_popular", "fetch_reddit_personal_dynamic"} ->
            SliceLoop(items, limit, {"good", "noid"})
      [] f = "fetch_twitter_personal_dynamic" -> SliceLoop(items, limit, ItemKinds)

\* what the fetcher returns: the exception of an item ends in the except
\* clause of the function, an empty list is a failure where the code says so
ParseItems(f, items, limit) ==
    LET r == LoopOf(f, items, limit)
    IN  IF r.raised THEN Fail(AttrError)
        ELSE IF r.out = <<>> /\ f = "fetch_weibo_personal_dynamic" THEN Fail(ErrWeiboEmpty)
        ELSE IF r.out = <<>> /\ f = "fetch_reddit_popular" THEN Fail(ErrRedditEmpty)
        ELSE IF r.out = <<>> /\ f = "fetch_twitter_personal_dynamic" THEN Fail(ErrTwitterEmpty)
        ELSE Ok(r.out)

ItemInit ==
    \E f \in ItemFetchers, items \in SeqsUpTo(SourceItemKinds, MaxItems), limit \in 1..MaxLimit :
      /\ locale \in Locales
      /\ bilibiliApi = EnvAllCore.api
      /\ store = EnvAllCore.store
      /\ files = EnvAllCore.files
      /\ call = [entry |-> "items", limit |-> limit, pc |-> "init", china |-> FALSE]
      /\ branches = <<>>
      /\ doneOrder = <<>>
      /\ win = [f |-> f, items |-> items, result |-> Fail(Absent)]
      /\ ret = NoEnvelope

ParseResponse ==
    /\ call.pc = "init"
    /\ win' = [win EXCEPT !.result = ParseItems(win.f, win.items, call.limit)]
    /\ call' = [call EXCEPT !.pc = "returned"]
    /\ UNCHANGED <<locale, bilibiliApi, store, files, branches, doneOrder, ret>>

ItemNext == ParseResponse

ItemSpec == ItemInit /\ [][ItemNext]_vars

ItemsParsed == call.entry = "items" /\ call.pc = "returned"

WellFormed(items) == SelectSeq(items, LAMBDA x : x # "bad")

\* C24: in every fetcher an item that fails to parse is skipped and nothing
\* else: the fetcher returns what it returns for the same response without
\* that item, so the well-formed items before and after it are still there
\* (up to limit) and a response with a well-formed item to show is a success.
C24_BadItemOnlySkipped ==
    ItemsParsed /\ win.items # WellFormed(win.items) =>
      win.result = ParseItems(win.f, WellFormed(win.items), call.limit)

\* the fetchers whose items have a primary identifier: bvid, id_str, mid / id,
\* permalink
IdentifiedBy ==
    {"fetch_bilibili_trending", "fetch_bilibili_personal_dynamic",
     "fetch_weibo_personal_dynamic", "fetch_reddit_popular", "fetch_reddit_personal_dynamic"}

\* C25: a source item without its primary identifier (Bilibili video bvid,
\* Bilibili dynamic id_str, Weibo post mid / id, Reddit permalink) is never in
\* the list a fetcher returns.
C25_NoItemWithoutIdentifier ==
    \A i \in 1..Len(branches) :
      branches[i].f \in IdentifiedBy /\ BranchOk(i) =>
        \A k \in 1..Len(branches[i].out.val.items) : branches[i].out.val.items[k] # "noid"

\* the stages of fetch_window_context_content, by the position of the call
StageRank(pc) ==
    CASE pc = "init" -> 0        \* before CaptureWindowTitle
      [] pc = "queries" -> 1     \* GenerateQueries: waiting for the assistant
      [] pc = "gather" -> 2      \* ConcurrentSearch
      [] pc = "returned" -> 3    \* after Deduplicate

\* C26: a call of fetch_window_context_content goes through its stages
\* CaptureWindowTitle, GenerateQueries, ConcurrentSearch, Deduplicate in that
\* order and through none twice, and when there is no window title it ends
\* at once with success = false: the assistant is not asked and no search is
\* launched.
C26_PipelineIsLinear ==
    [][call.entry = "window" =>
        /\ call'.pc # call.pc => StageRank(call'.pc) > StageRank(call.pc)
        /\ call.pc = "init" /\ ~win.active.has =>
             /\ call'.pc = "returned"
             /\ ~ret'.success
             /\ win'.queries = <<>>
             /\ branches' = <<>>]_vars

\* a call has gone through all four stages
C26_Witness ==
    /\ call.entry = "window"
    /\ HasReturned
    /\ ret.success
    /\ Len(branches) = 3
    /\ \A i \in 1..3 : branches[i].pc = "done"

(***************************************************************************)
(* Calls during which the locale of the process changes: setlocale in      *)
(* another task while the call waits for its assistant or its requests.    *)
(***************************************************************************)
\* one limit is enough: the region does not depend on it
LocaleInit == Init /\ call.limit = 1

ChangeLocale ==
    /\ call.pc \in {"queries", "gather"}
    /\ locale' \in Locales \ {locale}
    /\ UNCHANGED <<bilibiliApi, store, files, call, branches, doneOrder, win, ret>>

LocaleNext == Next \/ ChangeLocale

LocaleSpec == LocaleInit /\ [][LocaleNext]_vars

\* the coroutines an entry point launches in a region
LaunchedIn(entry, china) ==
    CASE entry \in {"public", "personal"} -> RegionFetchers(entry, china)
      [] entry = "video" -> IF china THEN {"fetch_bilibili_trending"} ELSE {"fetch_reddit_popular"}
      [] entry = "news" -> IF china THEN {"fetch_weibo_trending"} ELSE {"fetch_twitter_trending"}
      [] entry = "window" -> IF china THEN {"search_baidu"} ELSE {"search_google"}

\* C27: within one call every region-dependent decision uses one Region
\* value, the one the call derived when it started, even when the locale
\* changes while the call is suspended: the coroutines launched are those of
\* that region, the prompt of the assistant is in its language, and the
\* region field of the returned envelope, when there is one, names it.
C27_OneRegionPerCall ==
    call.pc # "init" =>
      /\ \A i \in 1..Len(branches) : branches[i].f \in LaunchedIn(call.entry, call.china)
      /\ win.prompt # Absent => win.prompt = PromptFor(call.china)
      /\ HasReturned /\ ret.region # Absent => ret.region = RegionName(call.china)

\* a window call returned its results after the locale had changed under it
C27_Witness ==
    /\ WindowMerged
    /\ is_china_region # call.china
    /\ win.prompt = PromptFor(call.china)

\* the first piece of a formatted text is one of the formatter's static labels
ChineseLabels ==
    {HeaderBilibili[1], HeaderWeibo[1], NoTrendingZh[1], NoVideoZh[1], NoNewsZh[1],
     NoDynamicsZh[1], WindowFailedZh, "[(zh) active window]",
     "[Bilibili followed dynamics]", "[Weibo followed dynamics]"}
EnglishLabels ==
    {HeaderReddit[1], HeaderTwitter[1], NoTrendingEn[1], NoVideoEn[1], NoNewsEn[1],
     NoDynamicsEn[1], WindowFailedEn, "[Active Window]",
     "[Reddit Subscribed Posts]", "[Twitter Timeline]"}

LabelRegion(piece) ==
    IF piece \in ChineseLabels THEN "china"
    ELSE IF piece \in EnglishLabels THEN "non-china"
    ELSE Absent

\* C28: the static labels and the "no results" message of a formatted text
\* are in the language of the region the envelope was produced for, also for
\* an envelope returned on a failure path and for one formatted after the
\* locale of the process has changed.
C28_LabelsFollowEnvelopeRegion ==
    Formatted => LabelRegion(win.text[1][1]) = RegionName(call.china)

(***************************************************************************)
(* The cookie router: POST /cookies/save (save_cookie) and the legacy POST *)
(* /save_cookie (api_save_cookie).  A request has passed the validation of *)
(* CookieSubmit; parse_cookie_string has a set of cookie names to give.    *)
(* store maps a platform to what save_cookies_to_file last wrote for it.   *)
(***************************************************************************)
\* login_manager.get_supported_platforms()
SupportedPlatforms == {"bilibili", "douyin", "kuaishou", "weibo", "twitter", "reddit"}
RequestPlatforms == SupportedPlatforms \cup {"youtube"}

\* platform_validations of save_cookie
platform_validations(platform) ==
    CASE platform = "bilibili" -> {"SESSDATA"}
      [] platform = "douyin" -> {"sessionid", "ttwid"}
      [] platform = "kuaishou" -> {"kuaishou.server.web_st", "userId"}
      [] platform = "weibo" -> {"SUB"}
      [] platform = "twitter" -> {"auth_token"}
      [] platform = "reddit" -> {"reddit_session"}
      [] OTHER -> {}

\* the tests of api_save_cookie
LegacyValidations(platform) ==
    CASE platform = "weibo" -> {"SUB"}
      [] platform = "twitter" -> {"auth_token"}
      [] platform = "douyin" -> {"sessionid"}
      [] platform = "kuaishou" -> {"kuaishou.server.web_st"}
      [] OTHER -> {}

\* the encrypt member of the request body: left out, null, true or false
EncryptFields == {"omitted", "null", "true", "false"}

\* encrypt: Optional[bool] = Field(False, ...): the value the model object holds
CookieSubmitEncrypt(field) == IF field = "omitted" THEN "false" ELSE field

\* encrypt = data.encrypt if data.encrypt is not None else True
EncryptOf(field) ==
    IF CookieSubmitEncrypt(field) = "null" THEN TRUE ELSE CookieSubmitEncrypt(field) = "true"

OldEntry == [cookies |-> {"old"}, encrypted |-> "old"]
OldStore == [p \in RequestPlatforms |-> OldEntry]

Response(success, status) == [success |-> success, status |-> status]

RouterInit ==
    \E endpoint \in {"save_cookie", "api_save_cookie"}, platform \in RequestPlatforms,
       field \in EncryptFields, suspicious \in BOOLEAN :
      \E cookies \in SUBSET (platform_validations(platform) \cup {"other"}) :
        /\ locale \in Locales
        /\ bilibiliApi = TRUE
        /\ store = OldStore
        /\ files = EnvFresh.files
        /\ call = [entry |-> endpoint, platform |-> platform, cookies |-> cookies,
                   encrypt |-> field, suspicious |-> suspicious, pc |-> "init"]
        /\ branches = <<>>
        /\ doneOrder = <<>>
        /\ win = [text |-> <<>>]
        /\ ret = Response(FALSE, 0)

\* save_cookies_to_file(platform, cookies, encrypt): writes and answers True,
\* or fails (directory permissions) and answers False
SaveCookiesToFile(platform, cookies, encrypt, ok) ==
    IF ok THEN [store EXCEPT ![platform] = [cookies |-> cookies, encrypted |-> encrypt]]
    ELSE store

save_cookie ==
    /\ call.pc = "init" /\ call.entry = "save_cookie"
    /\ call' = [call EXCEPT !.pc = "returned"]
    /\ IF call.suspicious
       THEN ret' = Response(FALSE, 403) /\ store' = store
       ELSE IF call.platform \notin SupportedPlatforms
       THEN ret' = Response(FALSE, 400) /\ store' = store
       ELSE IF call.cookies = {}
       THEN ret' = Response(FALSE, 400) /\ store' = store
       ELSE IF ~(platform_validations(call.platform) \subseteq call.cookies)
       THEN ret' = Response(FALSE, 400) /\ store' = store
       ELSE \E ok \in BOOLEAN :
              /\ store' = SaveCookiesToFile(call.platform, call.cookies,
                                            IF EncryptOf(call.encrypt) THEN "yes" ELSE "no", ok)
              /\ ret' = IF ok THEN Response(TRUE, 200) ELSE Response(FALSE, 500)
    /\ UNCHANGED <<locale, bilibiliApi, files, branches, doneOrder, win>>

api_save_cookie ==
    /\ call.pc = "init" /\ call.entry = "api_save_cookie"
    /\ call' = [call EXCEPT !.pc = "returned"]
    /\ IF call.cookies = {}
       THEN ret' = Response(FALSE, 200) /\ store' = store
       ELSE IF ~(LegacyValidations(call.platform) \subseteq call.cookies)
       THEN ret' = Response(FALSE, 200) /\ store' = store
       ELSE \E ok \in BOOLEAN :
              /\ store' = SaveCookiesToFile(call.platform, call.cookies, "default", ok)
              /\ ret' = Response(ok, 200)
    /\ UNCHANGED <<locale, bilibiliApi, files, branches, doneOrder, win>>

RouterNext == save_cookie \/ api_save_cookie

RouterSpec == RouterInit /\ [][RouterNext]_vars

Handled == call.entry \in {"save_cookie", "api_save_cookie"} /\ call.pc = "returned"

\* C29: through either save endpoint the store is written only when the
\* platform is a supported one, the cookie string gave a non-empty mapping
\* and every core field of the platform is in it; a rejected submission
\* leaves the store as it was.
C29_OnlyValidatedCookiesStored ==
    Handled =>
      /\ store # OldStore =>
           /\ call.platform \in SupportedPlatforms
           /\ call.cookies # {}
           /\ platform_validations(call.platform) \subseteq call.cookies
      /\ ~ret.success => store = OldStore

\* C30: POST /cookies/save stores the cookies encrypted unless the request
\* sets encrypt to false: a request that leaves encrypt out, sets it to null
\* or to true has its cookies written with encrypt = true.
C30_EncryptedByDefault ==
    Handled /\ call.entry = "save_cookie" /\ store # OldStore =>
      store[call.platform].encrypted = (IF call.encrypt = "false" THEN "no" ELSE "yes")

====
